---------------------------- MODULE Spec2Model ----------------------------
(***************************************************************************)
(* A model of cobalt's tool-calling orchestration loop                     *)
(* (src/cobalt/agent.py), its tools (src/cobalt/tools.py) and the          *)
(* sandboxed workspace (src/cobalt/workspace.py).                          *)
(*                                                                         *)
(* Texts (model replies, file paths, file contents, result texts) are TLA+ *)
(* strings and are processed character by character, as the Python code   *)
(* does.  Parsed JSON values, which Python holds as dict / list / str /    *)
(* None / int / bool objects, are records [k |-> kind, v |-> payload].     *)
(***************************************************************************)
EXTENDS Integers, Sequences, FiniteSets, TLC

(***************************************************************************)
(* Characters and whitespace                                               *)
(***************************************************************************)

\* A local name of the Python code: the value v is computed once and the
\* text F names it.
Bind(v, F(_)) == CHOOSE r \in {F(x) : x \in {v}} : TRUE

\* min(S) and max(S) of a set of numbers.
Min(S) == CHOOSE m \in S : \A n \in S : m <= n
Max(S) == CHOOSE m \in S : \A n \in S : n <= m

\* response[i] of the Python code, 1-based here; "" outside the text.
Ch(s, i) == IF i >= 1 /\ i <= Len(s) THEN SubSeq(s, i, i) ELSE ""

\* The characters str.strip(), the regex class \s and json's scanner skip.
IsWs(c) == c \in {" ", "\n", "\t", "\r"}

\* s[i:] starts with the literal text lit.
StartsWithAt(s, i, lit) ==
    /\ i >= 1
    /\ i + Len(lit) - 1 <= Len(s)
    /\ SubSeq(s, i, i + Len(lit) - 1) = lit

\* First index >= i that is past the end or holds no whitespace.
SkipWs(s, i) ==
    CHOOSE j \in i..(Len(s) + 1) :
        /\ (j = Len(s) + 1 \/ ~IsWs(Ch(s, j)))
        /\ \A k \in i..(j - 1) : IsWs(Ch(s, k))

\* str.strip(): the text without its leading and trailing whitespace.
Strip(s) ==
    Bind(SkipWs(s, 1), LAMBDA first :
      IF first > Len(s) THEN ""
      ELSE SubSeq(s, first,
                  CHOOSE j \in first..Len(s) :
                      /\ ~IsWs(Ch(s, j))
                      /\ \A k \in (j + 1)..Len(s) : IsWs(Ch(s, k))))

\* str.lower() on the letters the model's texts use.
LowerCh(c) ==
    CASE c = "A" -> "a" [] c = "B" -> "b" [] c = "C" -> "c" [] c = "D" -> "d"
      [] c = "E" -> "e" [] c = "F" -> "f" [] c = "G" -> "g" [] c = "H" -> "h"
      [] c = "I" -> "i" [] c = "J" -> "j" [] c = "K" -> "k" [] c = "L" -> "l"
      [] c = "M" -> "m" [] c = "N" -> "n" [] c = "O" -> "o" [] c = "P" -> "p"
      [] c = "Q" -> "q" [] c = "R" -> "r" [] c = "S" -> "s" [] c = "T" -> "t"
      [] c = "U" -> "u" [] c = "V" -> "v" [] c = "W" -> "w" [] c = "X" -> "x"
      [] c = "Y" -> "y" [] c = "Z" -> "z" [] OTHER -> c

\* str.lower(), by halves.
RECURSIVE LowerRange(_, _, _)
LowerRange(s, lo, hi) ==
    IF lo > hi THEN ""
    ELSE IF lo = hi THEN LowerCh(Ch(s, lo))
    ELSE LowerRange(s, lo, (lo + hi) \div 2)
         \o LowerRange(s, (lo + hi) \div 2 + 1, hi)

Lower(s) == LowerRange(s, 1, Len(s))

\* Python's `word in text` for strings.
Contains(text, word) ==
    \E i \in 1..(Len(text) + 1) : StartsWithAt(text, i, word)

\* text.count(c) for a one-character c.
CountCh(text, c) == Cardinality({i \in 1..Len(text) : Ch(text, i) = c})

(***************************************************************************)
(* JSON values and json.loads                                              *)
(***************************************************************************)

StrV(s) == [k |-> "str", v |-> s]
NullV == [k |-> "null", v |-> ""]
DictV(f) == [k |-> "dict", v |-> f]
ListV(q) == [k |-> "list", v |-> q]
\* An int, held as its decimal text: a Python int has no largest value.
NumV(digits) == [k |-> "num", v |-> digits]
BoolV(b) == [k |-> "bool", v |-> b]

\* The empty dict {} : a function with no keys.
EmptyDict == [x \in {} |-> NullV]

\* d[key] = val on a Python dict: a later duplicate key overwrites.
DictPut(f, key, val) ==
    [x \in (DOMAIN f) \cup {key} |-> IF x = key THEN val ELSE f[x]]

\* dict.get(key, default)
DictGet(f, key, default) == IF key \in DOMAIN f THEN f[key] ELSE default

\* The outcome of a scan: the value and the index after it, or the
\* exception raised, exc being the name of its class.
JFail == [ok |-> FALSE, val |-> NullV, pos |-> 0, exc |-> "JSONDecodeError"]
JOk(val, pos) == [ok |-> TRUE, val |-> val, pos |-> pos, exc |-> ""]

\* sys.int_info.default_max_str_digits: int() of a longer digit text raises
\* ValueError, which is not a json.JSONDecodeError.
IntMaxStrDigits == 4300
JValueError == [ok |-> FALSE, val |-> NullV, pos |-> 0, exc |-> "ValueError"]

IsDigit(c) == c \in {"0", "1", "2", "3", "4", "5", "6", "7", "8", "9"}

\* The text of a JSON string body with its escapes decoded, from index j to
\* index hi: the plain run up to the next backslash is copied, the escape is
\* decoded, and the scan goes on after it.
RECURSIVE JsonUnescape(_, _, _)
JsonUnescape(s, j, hi) ==
    LET Decoded(e) == IF e = "n" THEN "\n" ELSE IF e = "t" THEN "\t"
                      ELSE IF e = "r" THEN "\r" ELSE e
    IN  Bind({b \in j..hi : Ch(s, b) = "\\"}, LAMBDA B :
          IF B = {} THEN SubSeq(s, j, hi)
          ELSE Bind(CHOOSE m \in B : \A n \in B : m <= n, LAMBDA b :
                 SubSeq(s, j, b - 1) \o Decoded(Ch(s, b + 1))
                                    \o JsonUnescape(s, b + 2, hi)))

\* A JSON string body from index j (after the opening quote) to the first
\* quote that no backslash escapes.  A raw control character and an escape
\* other than \n \t \r \" \\ \/ are errors (json's strict mode).
JsonStrScan(s, j, acc) ==
    LET Escaped(i) ==
            \* an odd run of backslashes ends right before index i
            \E a \in j..(i - 1) :
                /\ \A b \in a..(i - 1) : Ch(s, b) = "\\"
                /\ (a = j \/ Ch(s, a - 1) # "\\")
                /\ (i - a) % 2 = 1
        Bad(q) ==
            \E i \in j..(q - 1) :
                \/ Ch(s, i) \in {"\n", "\t", "\r"}
                \/ /\ Ch(s, i) = "\\" /\ ~Escaped(i)
                   /\ Ch(s, i + 1) \notin {"n", "t", "r", "\"", "\\", "/"}
    IN  Bind({q \in j..Len(s) : Ch(s, q) = "\"" /\ ~Escaped(q)}, LAMBDA Q :
          IF Q = {} THEN JFail
          ELSE Bind(CHOOSE m \in Q : \A n \in Q : m <= n, LAMBDA q :
                 IF Bad(q) THEN JFail
                 ELSE JOk(StrV(acc \o JsonUnescape(s, j, q - 1)), q + 1)))

\* An integer from index j, which holds a digit: a lone 0 or a run of digits
\* (the scanner's NUMBER_RE matches no leading zero), handed to int().
JsonDigits(s, j) ==
    Bind(IF Ch(s, j) = "0" THEN j + 1
         ELSE Min({e \in (j + 1)..(Len(s) + 1) : ~IsDigit(Ch(s, e))}), LAMBDA e :
      IF e - j > IntMaxStrDigits THEN JValueError
      ELSE JOk(NumV(SubSeq(s, j, e - 1)), e))

RECURSIVE JsonValue(_, _), JsonMembers(_, _, _), JsonItems(_, _, _)

\* The members of an object from index j, which must hold a key.
JsonMembers(s, j, acc) ==
    IF Ch(s, j) # "\"" THEN JFail
    ELSE
      Bind(JsonStrScan(s, j + 1, ""), LAMBDA key :
        IF ~key.ok THEN key
        ELSE Bind(SkipWs(s, key.pos), LAMBDA c :
          IF Ch(s, c) # ":" THEN JFail
          ELSE Bind(JsonValue(s, SkipWs(s, c + 1)), LAMBDA val :
            IF ~val.ok THEN val
            ELSE Bind(SkipWs(s, val.pos), LAMBDA n :
              Bind(DictPut(acc, key.val.v, val.val), LAMBDA acc2 :
                IF Ch(s, n) = "}" THEN JOk(DictV(acc2), n + 1)
                ELSE IF Ch(s, n) = ","
                  THEN JsonMembers(s, SkipWs(s, n + 1), acc2)
                ELSE JFail)))))

\* The items of an array from index j, which must hold a value.
JsonItems(s, j, acc) ==
    Bind(JsonValue(s, j), LAMBDA val :
      IF ~val.ok THEN val
      ELSE Bind(SkipWs(s, val.pos), LAMBDA n :
        Bind(Append(acc, val.val), LAMBDA acc2 :
          IF Ch(s, n) = "]" THEN JOk(ListV(acc2), n + 1)
          ELSE IF Ch(s, n) = "," THEN JsonItems(s, SkipWs(s, n + 1), acc2)
          ELSE JFail)))

\* One JSON value starting exactly at index i.
JsonValue(s, i) ==
    Bind(Ch(s, i), LAMBDA c :
      IF c = "{" THEN
          Bind(SkipWs(s, i + 1), LAMBDA j :
            IF Ch(s, j) = "}" THEN JOk(DictV(EmptyDict), j + 1)
            ELSE JsonMembers(s, j, EmptyDict))
      ELSE IF c = "[" THEN
          Bind(SkipWs(s, i + 1), LAMBDA j :
            IF Ch(s, j) = "]" THEN JOk(ListV(<<>>), j + 1)
            ELSE JsonItems(s, j, <<>>))
      ELSE IF c = "\"" THEN JsonStrScan(s, i + 1, "")
      ELSE IF StartsWithAt(s, i, "null") THEN JOk(NullV, i + 4)
      ELSE IF StartsWithAt(s, i, "true") THEN JOk(BoolV(TRUE), i + 4)
      ELSE IF StartsWithAt(s, i, "false") THEN JOk(BoolV(FALSE), i + 5)
      ELSE IF IsDigit(c) THEN JsonDigits(s, i)
      ELSE JFail)

\* json.loads(s): [ok, val, exc]; ok = FALSE stands for the exception exc,
\* json.JSONDecodeError or the ValueError of int().  Whitespace around the
\* one value is allowed, anything else after it is "Extra data".
JsonLoads(s) ==
    Bind(JsonValue(s, SkipWs(s, 1)), LAMBDA r :
      IF ~r.ok THEN [ok |-> FALSE, val |-> NullV, exc |-> r.exc]
      ELSE IF SkipWs(s, r.pos) = Len(s) + 1
      THEN [ok |-> TRUE, val |-> r.val, exc |-> ""]
      ELSE [ok |-> FALSE, val |-> NullV, exc |-> "JSONDecodeError"])

\* json.loads(text) raises an exception that `except json.JSONDecodeError`
\* does not catch.
LoadsRaises(text) == JsonLoads(text).exc \notin {"", "JSONDecodeError"}

(***************************************************************************)
(* CobaltAgent._extract_tool_calls                                         *)
(***************************************************************************)

\* ToolCall(tool_name=data['tool'], parameters=data.get('parameters', {}),
\*          reasoning=data.get('reason', ''))
ToolCallOf(data) ==
    [tool_name  |-> data.v["tool"],
     parameters |-> DictGet(data.v, "parameters", DictV(EmptyDict)),
     reasoning  |-> DictGet(data.v, "reason", StrV(""))]

\* `isinstance(data, dict) and 'tool' in data` after a successful json.loads:
\* the tool calls (none or one) a JSON text contributes.
CallsOfJson(text) ==
    Bind(JsonLoads(text), LAMBDA data :
      IF data.ok /\ data.val.k = "dict" /\ "tool" \in DOMAIN data.val.v
      THEN <<ToolCallOf(data.val)>>
      ELSE <<>>)

\* The fence of a fenced block.  A TLA+ string cannot hold the backquote
\* character, so in every text of this model "~" stands for the backquote.
FenceOpen == "~~~json"
FenceClose == "\n~~~"

\* One match of the fenced-block regex (the fence opener in any case, a
\* whitespace run, a newline, a lazy group, a newline and the closing fence;
\* DOTALL, IGNORECASE) starting at index p: the greedy whitespace run gives
\* way to the last newline of the run after which a closing fence still
\* follows, and the lazy group ends at the first closing fence after it.
FenceMatch(s, p) ==
    LET a == p + Len(FenceOpen)
        Closes(q) == {e \in (q + 1)..Len(s) : StartsWithAt(s, e, FenceClose)}
        NoMatch == [ok |-> FALSE, block |-> "", end |-> p]
    IN  IF Ch(s, p) # Ch(FenceOpen, 1) \/ a - 1 > Len(s)
           \/ Lower(SubSeq(s, p, a - 1)) # FenceOpen
        THEN NoMatch
        ELSE Bind({q \in a..Len(s) :
                     /\ Ch(s, q) = "\n"
                     /\ \A k \in a..(q - 1) : IsWs(Ch(s, k))
                     /\ Closes(q) # {}}, LAMBDA Q :
               IF Q = {} THEN NoMatch
               ELSE Bind(Max(Q), LAMBDA q :
                      Bind(Min(Closes(q)), LAMBDA e :
                        [ok |-> TRUE, block |-> SubSeq(s, q + 1, e - 1),
                         end |-> e + Len(FenceClose)])))

\* re.findall: the groups of the non-overlapping matches, left to right.
RECURSIVE FencedBlocks(_, _)
FencedBlocks(s, p) ==
    Bind({i \in p..Len(s) : FenceMatch(s, i).ok}, LAMBDA P :
      IF P = {} THEN <<>>
      ELSE Bind(FenceMatch(s, Min(P)), LAMBDA m :
             <<m.block>> \o FencedBlocks(s, m.end)))

RECURSIVE ConcatCalls(_, _)
ConcatCalls(blocks, i) ==
    IF i > Len(blocks) THEN <<>>
    ELSE CallsOfJson(Strip(blocks[i])) \o ConcatCalls(blocks, i + 1)

\* Method 1: one call per fenced block that parses to a dict with 'tool'.
Method1(response) == ConcatCalls(FencedBlocks(response, 1), 1)

\* Method 1 is left by an exception: json.loads of some block raises one that
\* is no JSONDecodeError (lines 237-246).
Method1Raises(response) ==
    Bind(FencedBlocks(response, 1), LAMBDA blocks :
      \E i \in 1..Len(blocks) : LoadsRaises(Strip(blocks[i])))

\* The brace_count loop: the index of the '}' at which the count, started at
\* the '{' at index start, first returns to zero; 0 when it never does.
BraceClose(s, start) ==
    LET Bal(j) == Cardinality({i \in start..j : Ch(s, i) = "{"})
                  - Cardinality({i \in start..j : Ch(s, i) = "}"})
    IN  Bind({j \in start..Len(s) : Ch(s, j) = "}" /\ Bal(j) = 0}, LAMBDA J :
          IF J = {} THEN 0 ELSE Min(J))

MarkerConstrain == "<|constrain|>json<|message|>"
MarkerMessage == "<|message|>"

\* re.finditer(pattern, response): the start indices of the non-overlapping
\* occurrences of a literal marker, left to right.
RECURSIVE MarkerMatches(_, _, _)
MarkerMatches(s, marker, p) ==
    Bind({i \in p..Len(s) : StartsWithAt(s, i, marker)}, LAMBDA P :
      IF P = {} THEN <<>>
      ELSE Bind(Min(P), LAMBDA m :
             <<m>> \o MarkerMatches(s, marker, m + Len(marker))))

\* The body of `for match in matches` up to json_str: skip ' \n\t', require
\* '{' and find its balanced close.  [found, json_str]; found = FALSE when
\* json.loads is not reached.
ObjectAfterMarker(s, marker, p) ==
    LET end == p + Len(marker)
    IN  Bind(CHOOSE j \in end..(Len(s) + 1) :
               /\ (j = Len(s) + 1 \/ Ch(s, j) \notin {" ", "\n", "\t"})
               /\ \A k \in end..(j - 1) : Ch(s, k) \in {" ", "\n", "\t"},
             LAMBDA start :
          Bind(BraceClose(s, start), LAMBDA close :
            IF end <= Len(s) /\ Ch(s, start) = "{" /\ close # 0
            THEN [found |-> TRUE, json_str |-> SubSeq(s, start, close)]
            ELSE [found |-> FALSE, json_str |-> ""]))

\* The calls (none or one) the match at p contributes.
CallsAfterMarker(s, marker, p) ==
    Bind(ObjectAfterMarker(s, marker, p), LAMBDA m :
      IF m.found THEN CallsOfJson(m.json_str) ELSE <<>>)

RECURSIVE CallsOfMatches(_, _, _, _)
CallsOfMatches(s, marker, matches, i) ==
    IF i > Len(matches) THEN <<>>
    ELSE CallsAfterMarker(s, marker, matches[i])
         \o CallsOfMatches(s, marker, matches, i + 1)

CallsOfPattern(s, marker) ==
    CallsOfMatches(s, marker, MarkerMatches(s, marker, 1), 1)

\* The loop over the matches of one marker is left by an exception:
\* json.loads of the object after some match raises one that is no
\* JSONDecodeError (lines 274-284).
PatternRaises(s, marker) ==
    Bind(MarkerMatches(s, marker, 1), LAMBDA matches :
      \E i \in 1..Len(matches) :
          Bind(ObjectAfterMarker(s, marker, matches[i]), LAMBDA m :
            m.found /\ LoadsRaises(m.json_str)))

\* Method 2: the first marker type that yields any call.
Method2(response) ==
    Bind(CallsOfPattern(response, MarkerConstrain), LAMBDA found :
      IF found # <<>> THEN found
      ELSE CallsOfPattern(response, MarkerMessage))

\* Method 2 is left by an exception, in its first marker type or, when that
\* one yields no call, in its second.
Method2Raises(response) ==
    \/ PatternRaises(response, MarkerConstrain)
    \/ /\ CallsOfPattern(response, MarkerConstrain) = <<>>
       /\ PatternRaises(response, MarkerMessage)

\* Method 3: at every '{', in text order, the balanced substring, if it is a
\* dict with 'tool'; the scan goes on after a hit.  Its bare `except:` lets
\* no exception of json.loads out.
RECURSIVE Method3From(_, _)
Method3From(s, i) ==
    Bind({o \in i..Len(s) : Ch(s, o) = "{"}, LAMBDA Opens :
      IF Opens = {} THEN <<>>
      ELSE Bind(Min(Opens), LAMBDA o :
             Bind(BraceClose(s, o), LAMBDA close :
               (IF close # 0 THEN CallsOfJson(SubSeq(s, o, close)) ELSE <<>>)
               \o Method3From(s, o + 1))))

Method3(response) == Method3From(response, 1)

\* _extract_tool_calls(response) is left by an exception instead of
\* returning: Method 1 raises, or it finds no call and Method 2 raises.
ExtractRaises(response) ==
    \/ Method1Raises(response)
    \/ Method1(response) = <<>> /\ Method2Raises(response)

\* A parser that runs every tier and returns all they find.
ExtractAllTiers(response) ==
    Method1(response) \o CallsOfPattern(response, MarkerConstrain)
      \o CallsOfPattern(response, MarkerMessage) \o Method3(response)

\* _extract_tool_calls(response), when it returns.
ExtractToolCalls(response) ==
    Bind(Method1(response), LAMBDA fenced :
      IF fenced # <<>> THEN fenced
      ELSE Bind(Method2(response), LAMBDA marked :
             IF marked # <<>> THEN marked ELSE Method3(response)))

(***************************************************************************)
(* Paths and the filesystem (pathlib and the operating system, as           *)
(* workspace.py uses them).  A path is the sequence of its components from  *)
(* the filesystem root; the model has no symbolic links.                    *)
(***************************************************************************)

\* The components of a path text between its slashes; "" and "." are dropped
\* as pathlib drops them.
RECURSIVE PathParts(_, _)
PathParts(text, i) ==
    IF i > Len(text) THEN <<>>
    ELSE Bind(Min({j \in i..(Len(text) + 1) :
                     j = Len(text) + 1 \/ Ch(text, j) = "/"}), LAMBDA stop :
           Bind(SubSeq(text, i, stop - 1), LAMBDA part :
             (IF part \in {"", "."} THEN <<>> ELSE <<part>>)
             \o PathParts(text, stop + 1)))

\* Path(text): whether it is absolute, and its components.
PurePath(text) == [abs |-> Ch(text, 1) = "/", parts |-> PathParts(text, 1)]

\* self.root / filepath: an absolute right operand replaces the left one.
JoinPath(root, text) ==
    Bind(PurePath(text), LAMBDA other :
      IF other.abs THEN other.parts ELSE root \o other.parts)

\* Path.resolve() without symbolic links: ".." removes the component before
\* it, and stays at the filesystem root.
RECURSIVE ResolveFrom(_, _, _)
ResolveFrom(parts, i, acc) ==
    IF i > Len(parts) THEN acc
    ELSE IF parts[i] = ".."
      THEN ResolveFrom(parts, i + 1,
                       IF acc = <<>> THEN acc ELSE SubSeq(acc, 1, Len(acc) - 1))
      ELSE ResolveFrom(parts, i + 1, Append(acc, parts[i]))

Resolve(parts) == ResolveFrom(parts, 1, <<>>)

\* Path.is_relative_to(root)
IsRelativeTo(path, root) ==
    Len(path) >= Len(root) /\ SubSeq(path, 1, Len(root)) = root

\* Path.parent: lexical, the path without its last component.
ParentOf(parts) == IF parts = <<>> THEN parts ELSE SubSeq(parts, 1, Len(parts) - 1)

\* Path.suffix of the last component: from its last dot, unless the dot leads.
Suffix(parts) ==
    Bind(IF parts = <<>> THEN "" ELSE parts[Len(parts)], LAMBDA name :
      Bind({j \in 2..Len(name) : Ch(name, j) = "."}, LAMBDA Dots :
        IF Dots = {} \/ Len(name) \in Dots THEN ""
        ELSE SubSeq(name, Max(Dots), Len(name))))

\* The operating system's walk along a path: every component before the last
\* must be an existing directory (".." steps to the parent).  err is "" on
\* success, else "ENOENT" or "ENOTDIR".  fs is [files, dirs].
RECURSIVE OsWalk(_, _, _, _)
OsWalk(fs, parts, i, cur) ==
    IF i > Len(parts) THEN [err |-> "", path |-> cur]
    ELSE IF cur \notin fs.dirs
      THEN [err |-> IF cur \in DOMAIN fs.files THEN "ENOTDIR" ELSE "ENOENT",
            path |-> cur]
    ELSE IF parts[i] = ".." THEN OsWalk(fs, parts, i + 1, ParentOf(cur))
    ELSE OsWalk(fs, parts, i + 1, Append(cur, parts[i]))

OsLookup(fs, parts) == OsWalk(fs, parts, 1, <<>>)

\* Path.exists(), Path.is_file(), Path.is_dir()
PathExists(fs, parts) ==
    Bind(OsLookup(fs, parts), LAMBDA w :
      w.err = "" /\ (w.path \in fs.dirs \/ w.path \in DOMAIN fs.files))

PathIsFile(fs, parts) ==
    Bind(OsLookup(fs, parts), LAMBDA w :
      w.err = "" /\ w.path \in DOMAIN fs.files)

PathIsDir(fs, parts) ==
    Bind(OsLookup(fs, parts), LAMBDA w : w.err = "" /\ w.path \in fs.dirs)

\* os.mkdir(path): [err, fs]; err is "", "ENOENT", "ENOTDIR" or "EEXIST".
OsMkdir(fs, parts) ==
    Bind(OsLookup(fs, parts), LAMBDA w :
      IF w.err # "" THEN [err |-> w.err, fs |-> fs]
      ELSE IF w.path \in fs.dirs \/ w.path \in DOMAIN fs.files
        THEN [err |-> "EEXIST", fs |-> fs]
      ELSE [err |-> "", fs |-> [fs EXCEPT !.dirs = @ \cup {w.path}]])

\* Path.mkdir(parents, exist_ok=True): on ENOENT the parent is made first and
\* the directory is tried again without parents; any other error is passed
\* over when the path is a directory.  [ok, fs]; ok = FALSE stands for the
\* exception raised.
RECURSIVE PathMkdir(_, _, _)
PathMkdir(fs, parts, parents) ==
    Bind(OsMkdir(fs, parts), LAMBDA r :
      IF r.err = "" THEN [ok |-> TRUE, fs |-> r.fs]
      ELSE IF r.err = "ENOENT" THEN
          IF ~parents \/ parts = <<>> THEN [ok |-> FALSE, fs |-> fs]
          ELSE Bind(PathMkdir(fs, ParentOf(parts), TRUE), LAMBDA up :
                 IF ~up.ok THEN up ELSE PathMkdir(up.fs, parts, FALSE))
      ELSE [ok |-> PathIsDir(fs, parts), fs |-> fs])

\* The text mode's universal newlines on reading: "\r\n" and a lone "\r"
\* both become "\n".
RECURSIVE UniversalNewlines(_, _)
UniversalNewlines(text, i) ==
    Bind({j \in i..Len(text) : Ch(text, j) = "\r"}, LAMBDA Crs :
      IF Crs = {} THEN SubSeq(text, i, Len(text))
      ELSE Bind(Min(Crs), LAMBDA c :
             SubSeq(text, i, c - 1) \o "\n"
             \o UniversalNewlines(text, IF Ch(text, c + 1) = "\n"
                                        THEN c + 2 ELSE c + 1)))

\* Path.read_text(encoding='utf-8'): [ok, text]; ok = FALSE stands for the
\* OSError raised (no such file, a directory).
PathReadText(fs, parts) ==
    Bind(OsLookup(fs, parts), LAMBDA w :
      IF w.err = "" /\ w.path \in DOMAIN fs.files
      THEN [ok |-> TRUE, text |-> UniversalNewlines(fs.files[w.path], 1)]
      ELSE [ok |-> FALSE, text |-> ""])

\* Path.write_text(content, encoding='utf-8'): a content that is not a str
\* raises before the file is opened; opening creates or truncates the file.
PathWriteText(fs, parts, content) ==
    Bind(OsLookup(fs, parts), LAMBDA w :
      IF content.k # "str" \/ w.err # "" \/ w.path \in fs.dirs
      THEN [ok |-> FALSE, fs |-> fs]
      ELSE [ok |-> TRUE,
            fs |-> [fs EXCEPT !.files =
                      [q \in (DOMAIN @) \cup {w.path} |->
                          IF q = w.path THEN content.v ELSE @[q]]]])

\* Path.unlink(): removes a file; a directory or a missing path raises.
PathUnlink(fs, parts) ==
    Bind(OsLookup(fs, parts), LAMBDA w :
      IF w.err = "" /\ w.path \in DOMAIN fs.files
      THEN [ok |-> TRUE,
            fs |-> [fs EXCEPT !.files = [q \in (DOMAIN @) \ {w.path} |-> @[q]]]]
      ELSE [ok |-> FALSE, fs |-> fs])

(***************************************************************************)
(* Workspace (workspace.py).  filepath and content are JSON values: the     *)
(* tools pass on whatever the model's JSON held.  Every operation returns   *)
(* [ret, fs]: the Python return value and the filesystem after it.          *)
(***************************************************************************)

\* Workspace.root: Path(root).resolve()
Root == <<"ws">>

\* A containment test on the joined path as written, without resolve().
InsideRootUnresolved(text) == IsRelativeTo(JoinPath(Root, text), Root)

\* The `Security check` of read_file, write_file and delete_file:
\* full_path.resolve().is_relative_to(self.root)
InsideRoot(text) == IsRelativeTo(Resolve(JoinPath(Root, text)), Root)

\* Workspace.read_file: the text, or None ([ok |-> FALSE]).
ReadFile(fs, filepath) ==
    IF filepath.k # "str" THEN [ok |-> FALSE, text |-> ""]
    ELSE IF ~InsideRoot(filepath.v) THEN [ok |-> FALSE, text |-> ""]
    ELSE PathReadText(fs, JoinPath(Root, filepath.v))

\* A write_file that reports success and writes nothing.
WriteFileDropped(fs, filepath, content) == [ret |-> TRUE, fs |-> fs]

\* Workspace.write_file: True or False, and the filesystem after it.
WriteFile(fs, filepath, content) ==
    IF filepath.k # "str" THEN [ret |-> FALSE, fs |-> fs]
    ELSE IF ~InsideRoot(filepath.v) THEN [ret |-> FALSE, fs |-> fs]
    ELSE Bind(JoinPath(Root, filepath.v), LAMBDA full_path :
           Bind(PathMkdir(fs, ParentOf(full_path), TRUE), LAMBDA made :
             IF ~made.ok THEN [ret |-> FALSE, fs |-> made.fs]
             ELSE Bind(PathWriteText(made.fs, full_path, content), LAMBDA wr :
                    [ret |-> wr.ok, fs |-> wr.fs])))

\* Workspace.delete_file
DeleteFile(fs, filepath) ==
    IF filepath.k # "str" THEN [ret |-> FALSE, fs |-> fs]
    ELSE IF ~InsideRoot(filepath.v) THEN [ret |-> FALSE, fs |-> fs]
    ELSE Bind(JoinPath(Root, filepath.v), LAMBDA full_path :
           IF PathExists(fs, full_path)
           THEN Bind(PathUnlink(fs, full_path), LAMBDA un :
                  [ret |-> un.ok, fs |-> un.fs])
           ELSE [ret |-> FALSE, fs |-> fs])

\* Workspace.file_exists: no containment check; a filepath that is not a str
\* raises (raised |-> TRUE).
FileExists(fs, filepath) ==
    IF filepath.k # "str" THEN [raised |-> TRUE, ret |-> FALSE]
    ELSE Bind(JoinPath(Root, filepath.v), LAMBDA full_path :
           [raised |-> FALSE,
            ret |-> PathExists(fs, full_path) /\ PathIsFile(fs, full_path)])

\* Workspace.get_file_info: the info dict, or None ([ok |-> FALSE]); no
\* containment check.  st_mtime is left out: the model has no clock; the
\* st_size of a directory, which the operating system chooses, is given as 0.
NoInfo == [ok |-> FALSE, path |-> "", size |-> 0, is_file |-> FALSE,
           extension |-> ""]

GetFileInfo(fs, filepath) ==
    IF filepath.k # "str" THEN NoInfo
    ELSE Bind(JoinPath(Root, filepath.v), LAMBDA full_path :
           IF ~PathExists(fs, full_path) THEN NoInfo
           ELSE Bind(OsLookup(fs, full_path), LAMBDA w :
                  [ok |-> TRUE,
                   path |-> filepath.v,
                   size |-> IF w.path \in DOMAIN fs.files
                            THEN Len(fs.files[w.path]) ELSE 0,
                   is_file |-> PathIsFile(fs, full_path),
                   extension |-> Suffix(full_path)]))

(***************************************************************************)
(* Tools (tools.py)                                                        *)
(***************************************************************************)

\* str(n) for a natural number.
RECURSIVE IntStr(_)
IntStr(n) ==
    LET d == CASE n % 10 = 0 -> "0" [] n % 10 = 1 -> "1" [] n % 10 = 2 -> "2"
               [] n % 10 = 3 -> "3" [] n % 10 = 4 -> "4" [] n % 10 = 5 -> "5"
               [] n % 10 = 6 -> "6" [] n % 10 = 7 -> "7" [] n % 10 = 8 -> "8"
               [] OTHER -> "9"
    IN  IF n < 10 THEN d ELSE IntStr(n \div 10) \o d

\* str(value) as an f-string formats it.  A list or dict is shown without
\* its items.
PyStr(val) ==
    CASE val.k = "str" -> val.v
      [] val.k = "null" -> "None"
      [] val.k = "num" -> val.v
      [] val.k = "bool" -> (IF val.v THEN "True" ELSE "False")
      [] val.k = "list" -> "[..]"
      [] OTHER -> "{..}"

\* A tool as the registry holds it: Tool.__init__ keeps name and
\* requires_confirmation; required and optional are the parameters of the
\* subclass's execute() without and with a default.
ToolRec(name, confirm, required, optional) ==
    [name |-> name, requires_confirmation |-> confirm,
     required |-> required, optional |-> optional]

\* get_all_tools(): the nine tools in registry order.  Only ReadFileTool
\* passes requires_confirmation=False; list_files, search_code, analyze_code,
\* get_tree and file_info take Tool.__init__'s default, True.
GetAllTools ==
    << ToolRec("read_file", FALSE, {"filepath"}, {}),
       ToolRec("create_file", TRUE, {"filepath", "content"}, {"reason"}),
       ToolRec("write_file", TRUE, {"filepath", "content"}, {}),
       ToolRec("list_files", TRUE, {}, {"pattern", "recursive"}),
       ToolRec("search_code", TRUE, {"pattern"}, {"file_pattern", "regex"}),
       ToolRec("analyze_code", TRUE, {}, {"file_pattern"}),
       ToolRec("run_command", TRUE, {"command"}, {"reason"}),
       ToolRec("get_tree", TRUE, {}, {"max_depth"}),
       ToolRec("file_info", TRUE, {"filepath"}, {}) >>

\* A parameter described by a dict with its type and its description, as
\* ReadFileTool, CreateFileTool, WriteFileTool and RunCommandTool write it.
ParamSpec(description) ==
    DictV([type |-> StrV("string"), description |-> StrV(description)])

\* self.parameters of each tool, as its __init__ passes it: the pairs of a
\* name and what describes it, in the order of the dict.  ListFilesTool,
\* SearchCodeTool, AnalyzeCodeTool, GetTreeTool and FileInfoTool describe a
\* parameter by a plain text.
ToolParameters(name) ==
    CASE name = "read_file" ->
           << <<"filepath",
                ParamSpec("Path to the file to read (relative to workspace)")>> >>
      [] name = "create_file" ->
           << <<"filepath",
                ParamSpec("Path for the new file (relative to workspace, e.g., 'src/calculator.py')")>>,
              <<"content", ParamSpec("Complete content to write to the file")>>,
              <<"reason",
                ParamSpec("Brief explanation of why this file is being created")>> >>
      [] name = "write_file" ->
           << <<"filepath",
                ParamSpec("Path to the file to write (relative to workspace)")>>,
              <<"content", ParamSpec("Content to write to the file")>> >>
      [] name = "list_files" ->
           << <<"pattern", StrV("Glob pattern to match files (default: *.py)")>>,
              <<"recursive", StrV("Search recursively (default: true)")>> >>
      [] name = "search_code" ->
           << <<"pattern", StrV("Text or regex pattern to search for")>>,
              <<"file_pattern",
                StrV("File pattern to search in (default: *.py)")>>,
              <<"regex", StrV("Use regex matching (default: false)")>> >>
      [] name = "analyze_code" ->
           << <<"file_pattern",
                StrV("File pattern to analyze (default: *.py)")>> >>
      [] name = "run_command" ->
           << <<"command",
                ParamSpec("Full command to execute (e.g., 'python test.py' or 'pip install requests')")>>,
              <<"reason",
                ParamSpec("Brief explanation of why this command needs to run")>> >>
      [] name = "get_tree" ->
           << <<"max_depth", StrV("Maximum depth to traverse (default: 3)")>> >>
      [] OTHER -> << <<"filepath", StrV("Path to the file")>> >>

\* self.description of each tool.
ToolDescription(name) ==
    CASE name = "read_file" -> "Read the contents of a file"
      [] name = "create_file" ->
           "Create a new file with specified content. AI determines the filename."
      [] name = "write_file" -> "Write or modify content in an existing file"
      [] name = "list_files" -> "List files in the workspace matching a pattern"
      [] name = "search_code" -> "Search for text patterns in code files"
      [] name = "analyze_code" -> "Analyze code structure and statistics"
      [] name = "run_command" ->
           "Execute a terminal/shell command. Use for running tests, installing packages, etc."
      [] name = "get_tree" -> "Get directory tree structure"
      [] OTHER -> "Get information about a file"

\* bool(value) of Python.
Truth(value) ==
    CASE value.k = "bool" -> value.v
      [] value.k = "null" -> FALSE
      [] value.k = "str" -> value.v # ""
      [] value.k = "num" -> value.v # "0"
      [] value.k = "list" -> value.v # <<>>
      [] OTHER -> DOMAIN value.v # {}

\* [k for k, v in self.parameters.items() if v.get("required", True)]
RequiredOf(parameters) ==
    Bind(SelectSeq(parameters,
                   LAMBDA kv : Truth(DictGet(kv[2].v, "required", BoolV(TRUE)))),
         LAMBDA kept : [i \in 1..Len(kept) |-> kept[i][1]])

\* Tool.to_openai_tool: v.get raises AttributeError on a parameter that is
\* described by a text and not by a dict.
ToOpenAITool(tool) ==
    Bind(ToolParameters(tool.name), LAMBDA parameters :
      IF \E i \in 1..Len(parameters) : parameters[i][2].k # "dict"
      THEN [raised |-> TRUE, exc |-> "'str' object has no attribute 'get'"]
      ELSE [raised |-> FALSE, exc |-> "",
            type |-> "function",
            function |->
              [name |-> tool.name,
               description |-> ToolDescription(tool.name),
               parameters |-> [type |-> "object",
                               properties |-> parameters,
                               required |-> RequiredOf(parameters)]]])

\* RunCommandTool.allowed_commands
AllowedCommands ==
    << "python", "python3", "pip", "pip3", "node", "npm", "npx",
       "ls", "dir", "cat", "type", "echo", "git", "pytest", "test" >>

RECURSIVE JoinFrom(_, _, _)
JoinFrom(texts, sep, i) ==
    IF i > Len(texts) THEN ""
    ELSE IF i = Len(texts) THEN texts[i]
    ELSE texts[i] \o sep \o JoinFrom(texts, sep, i + 1)

\* sep.join(texts)
Join(texts, sep) == JoinFrom(texts, sep, 1)

\* cmd_parts[0] of shlex.split(command) for a command without quotes: the
\* first run of non-blank characters; "" when cmd_parts is empty.
BaseCommand(command) ==
    Bind(SkipWs(command, 1), LAMBDA a :
      SubSeq(command, a,
             Min({j \in a..(Len(command) + 1) :
                    j = Len(command) + 1 \/ IsWs(Ch(command, j))}) - 1))

\* ToolResult, with what the call did to the world: the filesystem after it
\* and whether subprocess.run started a process.  raised = TRUE stands for an
\* exception leaving execute(), exc being str(e).  metadata is the empty
\* dict of __post_init__ unless the tool passes one.
Result(success, output, error, fs, spawned) ==
    [raised |-> FALSE, exc |-> "", success |-> success, output |-> output,
     error |-> error, metadata |-> EmptyDict, fs |-> fs, spawned |-> spawned]

Raised(exc, fs) ==
    [raised |-> TRUE, exc |-> exc, success |-> FALSE, output |-> "",
     error |-> "", metadata |-> EmptyDict, fs |-> fs, spawned |-> FALSE]

\* ReadFileTool.execute
ReadFileExecute(fs, args) ==
    Bind(ReadFile(fs, args["filepath"]), LAMBDA content :
      IF content.ok THEN Result(TRUE, content.text, "None", fs, FALSE)
      ELSE Result(FALSE, "", "Failed to read file: " \o PyStr(args["filepath"]),
                  fs, FALSE))

\* CreateFileTool.execute
CreateFileExecute(fs, args) ==
    Bind(WriteFile(fs, args["filepath"], args["content"]), LAMBDA wr :
      IF wr.ret
      THEN Result(TRUE,
                  "Created " \o PyStr(args["filepath"]) \o " ("
                    \o IntStr(Len(args["content"].v)) \o " bytes)\nReason: "
                    \o PyStr(DictGet(args, "reason", StrV(""))),
                  "None", wr.fs, FALSE)
      ELSE Result(FALSE, "", "Failed to create file: " \o PyStr(args["filepath"]),
                  wr.fs, FALSE))

\* WriteFileTool.execute
WriteFileExecute(fs, args) ==
    Bind(WriteFile(fs, args["filepath"], args["content"]), LAMBDA wr :
      IF wr.ret
      THEN Result(TRUE,
                  "Successfully wrote " \o IntStr(Len(args["content"].v))
                    \o " bytes to " \o PyStr(args["filepath"]),
                  "None", wr.fs, FALSE)
      ELSE Result(FALSE, "", "Failed to write file: " \o PyStr(args["filepath"]),
                  wr.fs, FALSE))

\* ListFilesTool.execute: always a success; the output is empty when the
\* workspace holds no file.  The listing itself (glob, ignore patterns, sort)
\* is not computed: "<files>" stands for it.
ListFilesExecute(fs, args) ==
    Result(TRUE,
           IF \E q \in DOMAIN fs.files : IsRelativeTo(q, Root)
           THEN "<files>" ELSE "",
           "None", fs, FALSE)

\* SearchCodeTool.execute, AnalyzeCodeTool.execute, GetTreeTool.execute: each
\* reads the workspace and always succeeds with a non-empty report, which is
\* not computed: a fixed text stands for it.
SearchCodeExecute(fs, args) == Result(TRUE, "No matches found", "None", fs, FALSE)

AnalyzeCodeExecute(fs, args) ==
    Result(TRUE, "Code Analysis Results:<stats>", "None", fs, FALSE)

GetTreeExecute(fs, args) == Result(TRUE, "/ws<tree>", "None", fs, FALSE)

\* FileInfoTool.execute
FileInfoExecute(fs, args) ==
    Bind(GetFileInfo(fs, args["filepath"]), LAMBDA info :
      IF info.ok
      THEN Result(TRUE,
                  "File Information:\nPath: " \o info.path
                    \o "\nSize: " \o IntStr(info.size) \o " bytes\nExtension: "
                    \o info.extension \o "\nType: "
                    \o (IF info.is_file THEN "File" ELSE "Directory") \o "\n",
                  "None", fs, FALSE)
      ELSE Result(FALSE, "", "File not found: " \o PyStr(args["filepath"]),
                  fs, FALSE))

\* What subprocess.run can end in, chosen by the environment: the exit code
\* with the captured stdout and stderr, the timeout (the child is killed and
\* waited for before TimeoutExpired is raised), no such executable, or
\* another error of starting it (PermissionError for a file that is not
\* executable).
ProcessOutcomes == {"exit0", "exit1", "timeout", "notfound", "oserror"}

\* A gate that lets every command through.
CommandAllowedAlways(base_command) == TRUE

\* any(base_command.startswith(cmd) for cmd in self.allowed_commands)
CommandAllowed(base_command) ==
    \E i \in 1..Len(AllowedCommands) :
        StartsWithAt(base_command, 1, AllowedCommands[i])

\* RunCommandTool.execute under safe_mode, the process ending in `outcome`.
\* A command that is a number or a list makes shlex.split and then
\* command.split() raise.  What the process does to the filesystem is not
\* modelled.
RunCommandExecute(fs, args, safe_mode, outcome) ==
    LET stdout == IF outcome = "exit0" THEN "ok" ELSE "partial"
        stderr == IF outcome = "exit0" THEN "" ELSE "boom"
        Output(out, err) ==
            IF err # "" THEN out \o "\n[stderr]: " \o err
            ELSE IF out = "" THEN "(no output)" ELSE out
        Metadata(returncode) ==
            [returncode |-> returncode, command |-> args["command"].v,
             reason |-> PyStr(DictGet(args, "reason", StrV("")))]
    IN  IF args["command"].k # "str"
          THEN Raised("object has no attribute 'split'", fs)
        ELSE Bind(BaseCommand(args["command"].v), LAMBDA base_command :
          IF base_command = ""
            THEN Result(FALSE, "", "Empty command", fs, FALSE)
          ELSE IF safe_mode /\ ~CommandAllowed(base_command)
            THEN Result(FALSE, "",
                        "Command '" \o base_command
                          \o "' not allowed in safe mode. Allowed: "
                          \o Join(AllowedCommands, ", "),
                        fs, FALSE)
          ELSE IF outcome = "timeout"
            THEN Result(FALSE, "", "Command timed out after 60 seconds", fs, TRUE)
          ELSE IF outcome = "notfound"
            THEN Result(FALSE, "", "Command not found: " \o base_command,
                        fs, FALSE)
          ELSE IF outcome = "oserror"
            THEN Result(FALSE, "",
                        "Error running command: [Errno 13] Permission denied: '"
                          \o base_command \o "'", fs, FALSE)
          ELSE IF outcome = "exit0"
            THEN [Result(TRUE, Output(stdout, stderr), "None", fs, TRUE)
                    EXCEPT !.metadata = Metadata(0)]
          ELSE [Result(FALSE, Output(stdout, stderr),
                       "Command exited with code 1", fs, TRUE)
                  EXCEPT !.metadata = Metadata(1)])

\* tool.execute(**parameters): Python binds the keywords first; an unknown
\* keyword or a missing required parameter raises TypeError before the body
\* runs.
ToolExecute(tool, args, fs, safe_mode, outcome) ==
    LET Unknown == (DOMAIN args) \ (tool.required \cup tool.optional)
        Missing == tool.required \ (DOMAIN args)
    IN  IF Unknown # {}
          THEN Raised("execute() got an unexpected keyword argument '"
                        \o (CHOOSE u \in Unknown : TRUE) \o "'", fs)
        ELSE IF Missing # {}
          THEN Raised("execute() missing " \o IntStr(Cardinality(Missing))
                        \o " required positional argument", fs)
        ELSE CASE tool.name = "read_file" -> ReadFileExecute(fs, args)
               [] tool.name = "create_file" -> CreateFileExecute(fs, args)
               [] tool.name = "write_file" -> WriteFileExecute(fs, args)
               [] tool.name = "list_files" -> ListFilesExecute(fs, args)
               [] tool.name = "search_code" -> SearchCodeExecute(fs, args)
               [] tool.name = "analyze_code" -> AnalyzeCodeExecute(fs, args)
               [] tool.name = "run_command" ->
                      RunCommandExecute(fs, args, safe_mode, outcome)
               [] tool.name = "get_tree" -> GetTreeExecute(fs, args)
               [] OTHER -> FileInfoExecute(fs, args)

(***************************************************************************)
(* CobaltAgent (agent.py): execute_task and _exec_tool                      *)
(***************************************************************************)

\* The largest max_turns the model runs execute_task with.
MaxTurns == 2

\* A history that puts the new message in front instead of at the end.
PrependMessage(history, message) == <<message>> \o history

\* messages.append(message)
AppendMessage(history, message) == Append(history, message)

\* Message(role, content)
Message(role, content) == [role |-> role, content |-> content]

\* The task text handed to execute_task, and _get_system_prompt(), whose
\* fixed instruction text is not spelled out.
Task == "make b.py"
SystemPrompt == "<system prompt> Workspace: /ws"

\* The history execute_task starts from.  The source writes the separator as
\* a backslash and an n.
InitialMessages ==
    << Message("system", SystemPrompt),
       Message("user", "Task: " \o Task \o "\\nWorkspace: /ws") >>

\* The loop-ending signals the user sees.
SigLLMFailed == "LLM failed"
SigCompleted == "Task completed!"
SigNoToolCalls == "No tool calls detected. Model may not understand the format."

\* done_words of execute_task
DoneWords == <<"done", "completed", "finished", "success", "task completed">>

\* any(word in ai_response.lower() for word in done_words)
HasDoneWord(ai_response) ==
    \E w \in 1..Len(DoneWords) :
        \E i \in 1..Len(ai_response) :
            /\ i + Len(DoneWords[w]) - 1 <= Len(ai_response)
            /\ \A c \in 1..Len(DoneWords[w]) :
                  LowerCh(Ch(ai_response, i + c - 1)) = Ch(DoneWords[w], c)

\* The condition of line 123: one of the two tags is in the reply.  The
\* longer tag ends with the shorter one.
HasMarker(ai_response) ==
    Contains(ai_response, MarkerConstrain) \/ Contains(ai_response, MarkerMessage)

\* One round of `for tag in [...]`: the text after the last occurrence of
\* the tag, stripped, cut before the next "<|", closed with as many braces as
\* are missing, and parsed.
RecoverWithTag(ai_response, tag) ==
    LET Braces[n \in 0..Len(ai_response)] ==
            IF n = 0 THEN "" ELSE Braces[n - 1] \o "}"
        CutAt(after) ==
            Min({i \in 1..(Len(after) + 1) :
                   i = Len(after) + 1 \/ StartsWithAt(after, i, "<|")})
    IN  Bind({i \in 1..Len(ai_response) : StartsWithAt(ai_response, i, tag)},
             LAMBDA Occ :
          IF Occ = {} THEN <<>>
          ELSE Bind(Strip(SubSeq(ai_response, Max(Occ) + Len(tag),
                                 Len(ai_response))), LAMBDA after :
            Bind(SubSeq(after, 1, CutAt(after) - 1), LAMBDA json_part :
              Bind(CountCh(json_part, "{") - CountCh(json_part, "}"),
                   LAMBDA deficit :
                CallsOfJson(IF deficit > 0 THEN json_part \o Braces[deficit]
                            ELSE json_part)))))

\* Lines 122-144 of execute_task: the tool call recovered by hand from a
\* reply the parser found nothing in; the first tag that yields one wins.
ManualRecover(ai_response) ==
    Bind(RecoverWithTag(ai_response, MarkerConstrain), LAMBDA found :
      IF found # <<>> THEN found
      ELSE RecoverWithTag(ai_response, MarkerMessage))

\* A lookup that takes names in any case.
FindToolAnyCase(tools, tool_name) ==
    Bind({i \in 1..Len(tools) :
            tool_name.k = "str" /\ Lower(tools[i].name) = Lower(tool_name.v)},
         LAMBDA Hits : IF Hits = {} THEN 0 ELSE Min(Hits))

\* The tool of the registry a call names: the index of the first tool whose
\* name equals tool_name, 0 when there is none.
FindTool(tools, tool_name) ==
    Bind({i \in 1..Len(tools) :
            tool_name.k = "str" /\ tools[i].name = tool_name.v}, LAMBDA Hits :
      IF Hits = {} THEN 0 ELSE Min(Hits))

\* choice = input(...).strip().lower()
Choice(answer) == Lower(Strip(answer))

\* A gate that lets every answer but 'n' through.
ProceedsUnlessNo(choice) == choice # "n"

\* `choice not in ['y', 'yes']` negated.
Proceeds(choice) == choice \in {"y", "yes"}

\* results_msg of execute_task (separators as the source writes them).
ResultsMsg(results) ==
    "Results:\\n" \o Join(results, "\\n")
      \o "\\n\\nContinue or say 'Task completed'."

\* What _exec_tool returns after tool.execute(): the output (or "Success"),
\* or the error text; an exception is caught and reported the same way.
ExecReturn(r) ==
    IF r.raised THEN "Error: " \o r.exc
    ELSE IF r.success THEN (IF r.output # "" THEN r.output ELSE "Success")
    ELSE "Error: " \o r.error

(***************************************************************************)
(* The texts the model's LLM replies with, the answers typed at the         *)
(* confirmation prompt, and the inputs of the workspace operations          *)
(***************************************************************************)

Fenced(json) == FenceOpen \o "\n" \o json \o FenceClose

\* The text c repeated n times.
RECURSIVE Repeat(_, _)
Repeat(c, n) ==
    IF n = 0 THEN "" ELSE IF n = 1 THEN c
    ELSE Repeat(c, n \div 2) \o Repeat(c, n - n \div 2)

JsonReadA ==
    "{\"tool\": \"read_file\", \"parameters\": {\"filepath\": \"a.py\"}}"
JsonCreateB ==
    "{\"tool\": \"create_file\", \"parameters\": {\"filepath\": \"sub/b.py\", "
      \o "\"content\": \"hi\"}, \"reason\": \"new file\"}"
JsonRun ==
    "{\"tool\": \"run_command\", \"parameters\": {\"command\": \"python t.py\"}}"
JsonUnknown == "{\"tool\": \"nope\"}"
JsonReadUpper ==
    "{\"tool\": \"READ_FILE\", \"parameters\": {\"filepath\": \"a.py\"}}"
JsonReadNull == "{\"tool\": \"read_file\", \"parameters\": null}"
JsonWriteNoContent ==
    "{\"tool\": \"write_file\", \"parameters\": {\"filepath\": \"a.py\"}}"
JsonWriteOutside ==
    "{\"tool\": \"write_file\", \"parameters\": {\"filepath\": \"../etc/passwd\", "
      \o "\"content\": \"pwn\"}}"
JsonInfoOutside ==
    "{\"tool\": \"file_info\", \"parameters\": {\"filepath\": \"../etc/passwd\"}}"
JsonList == "{\"tool\": \"list_files\"}"
JsonTreeDeep ==
    "{\"tool\": \"get_tree\", \"parameters\": {\"max_depth\": "
      \o Repeat("1", IntMaxStrDigits) \o "}}"
JsonTreeTooDeep ==
    "{\"tool\": \"get_tree\", \"parameters\": {\"max_depth\": "
      \o Repeat("1", IntMaxStrDigits + 1) \o "}}"

ReplyRead == Fenced(JsonReadA)
ReplyCreate == Fenced(JsonCreateB)
ReplyRun == Fenced(JsonRun)
ReplyReadUpper == Fenced(JsonReadUpper)
ReplyUnknownThenRead == Fenced(JsonUnknown) \o "\n" \o Fenced(JsonReadA)
ReplyUnknownThenNull == Fenced(JsonUnknown) \o "\n" \o Fenced(JsonReadNull)
ReplyNullThenRead == Fenced(JsonReadNull) \o "\n" \o Fenced(JsonReadA)
ReplyWriteNoContent == Fenced(JsonWriteNoContent)
ReplyWriteOutside == Fenced(JsonWriteOutside)
ReplyText == "I will look into it."
ReplyCompleted == "Task COMPLETED."
ReplyMarkerTruncated ==
    "<|message|>{\"tool\": \"read_file\", \"parameters\": {\"filepath\": \"a.py\""
ReplyMarkerCutInString ==
    "<|message|>{\"tool\": \"read_file\", \"parameters\": {\"filepath\": \"a.p"
ReplyScanThenTruncated == "Using " \o JsonList \o " " \o ReplyMarkerTruncated
ReplyMarkerDone == "<|channel|>final<|message|>All done."
ReplyMarkerCall == "<|constrain|>json<|message|>" \o JsonList
ReplyBraceInfo == "Let me check " \o JsonInfoOutside
ReplyTreeTooDeep == Fenced(JsonTreeTooDeep)

\* response.content of a successful generate call.
Replies ==
    { ReplyRead, ReplyCreate, ReplyRun, ReplyReadUpper, ReplyUnknownThenRead,
      ReplyUnknownThenNull, ReplyNullThenRead, ReplyWriteNoContent,
      ReplyWriteOutside, ReplyText,
      ReplyCompleted, ReplyMarkerTruncated, ReplyMarkerCutInString,
      ReplyScanThenTruncated, ReplyMarkerDone, ReplyMarkerCall,
      ReplyBraceInfo, ReplyTreeTooDeep }

\* What execute_task computes from each reply: whether _extract_tool_calls
\* raises, the calls it returns otherwise, the tag test of line 123, the call
\* recovered by hand, and the done-word test.
ReplyFacts ==
    [r \in Replies |->
        [raises |-> ExtractRaises(r),
         calls |-> IF ExtractRaises(r) THEN <<>> ELSE ExtractToolCalls(r),
         marker |-> HasMarker(r),
         recovered |-> IF HasMarker(r) THEN ManualRecover(r) ELSE <<>>,
         done |-> HasDoneWord(r)]]

\* What the user types at a confirmation prompt.
Answers == {"y", " Yes", "n", "v"}

\* The filesystem execute_task starts on: the workspace /ws with a.py in it,
\* and a file outside the workspace.
InitialFs ==
    [dirs |-> {<<>>, <<"ws">>, <<"etc">>},
     files |-> (<<"ws", "a.py">> :> "x = 1") @@ (<<"etc", "passwd">> :> "root")]

(***************************************************************************)
(* State                                                                   *)
(***************************************************************************)

VARIABLES
    pc,          \* where execute_task stands: "generate" (about to call
                 \* llm.generate), "exec_tool" (about to call _exec_tool for
                 \* tool_calls[idx]), "confirm1" / "confirm2" (blocked in the
                 \* first / second input() of _exec_tool), "done" (returned),
                 \* "raised" (left by an exception), "idle" (not running)
    max_turns,   \* the argument of execute_task
    turn,        \* the loop variable; 0 while it is unbound
    messages,    \* the history
    tool_calls,  \* the calls of the current turn
    idx,         \* the index (from 1) of the call being handled
    results,     \* the result entries of the current turn
    signal,      \* the loop-ending signal printed by the UI, "" for none
    safe_mode,   \* RunCommandTool.safe_mode
    fs,          \* the filesystem: [files, dirs]
    spawned,     \* number of processes subprocess.run started
    genCalls,    \* number of llm.generate calls made
    parseCalls,  \* number of _extract_tool_calls calls made
    sent,        \* the history handed to the last llm.generate call
    trace,       \* what _exec_tool did, in order: [turn, idx, ev, arg]
    wsLast,      \* the last direct workspace or tool operation and its result
    response,    \* the text _extract_tool_calls is called with directly
    extracted,   \* what that call ended in: [raised, calls, returned]
    facts,       \* ReplyFacts, computed once: the code's functions are pure,
                 \* so what they make of a reply is the same in every state
    tools        \* self.tools: the registry, as get_all_tools built it

vars == << pc, max_turns, turn, messages, tool_calls, idx, results, signal,
           safe_mode, fs, spawned, genCalls, parseCalls, sent, trace, wsLast,
           response, extracted, facts, tools >>

agentVars == << pc, max_turns, turn, messages, tool_calls, idx, results,
                signal, safe_mode, spawned, genCalls, parseCalls, sent, trace,
                response, extracted, facts, tools >>

\* _extract_tool_calls has not been called directly.
NoExtract == [raised |-> FALSE, calls |-> <<>>, returned |-> FALSE]

\* No workspace operation made yet.
NoOp == [op |-> "", filepath |-> "", ok |-> FALSE, revealed |-> "",
         changed |-> FALSE]

\* The record of one operation: its name, its path argument, whether it
\* reported success, the text about the target it handed back, and whether
\* the filesystem differs after it.
Op(op, filepath, ok, revealed, before, after) ==
    [op |-> op, filepath |-> filepath, ok |-> ok, revealed |-> revealed,
     changed |-> before # after]

Event(ev, arg) == [turn |-> turn, idx |-> idx, ev |-> ev, arg |-> arg]

\* execute_task entered with one of the turn budgets, at the top of the
\* first pass of `for turn in range(1, max_turns + 1)`.
Init ==
    /\ max_turns \in 1..MaxTurns
    /\ turn = 1
    /\ pc = "generate"
    /\ messages = InitialMessages
    /\ tool_calls = <<>>
    /\ idx = 0
    /\ results = <<>>
    /\ signal = ""
    /\ safe_mode = FALSE
    /\ fs = InitialFs
    /\ spawned = 0
    /\ genCalls = 0
    /\ parseCalls = 0
    /\ sent = <<>>
    /\ trace = <<>>
    /\ wsLast = NoOp
    /\ response = ""
    /\ extracted = NoExtract
    /\ facts = ReplyFacts
    /\ tools = GetAllTools

(***************************************************************************)
(* execute_task                                                            *)
(***************************************************************************)

\* A loop that reports the gateway failure and asks the gateway again.
GenerateFailsThenRetries ==
    /\ pc = "generate"
    /\ genCalls < max_turns + 1
    /\ genCalls' = genCalls + 1
    /\ sent' = messages
    /\ signal' = SigLLMFailed
    /\ pc' = "generate"
    /\ UNCHANGED << max_turns, turn, messages, tool_calls, idx, results,
                    safe_mode, fs, spawned, parseCalls, trace, wsLast,
                            response, extracted, facts, tools >>

\* llm.generate returns success = False: "LLM failed" and break.
GenerateFails ==
    /\ pc = "generate"
    /\ genCalls' = genCalls + 1
    /\ sent' = messages
    /\ signal' = SigLLMFailed
    /\ pc' = "done"
    /\ UNCHANGED << max_turns, turn, messages, tool_calls, idx, results,
                    safe_mode, fs, spawned, parseCalls, trace, wsLast,
                            response, extracted, facts, tools >>

\* A loop that, finding no call in the reply, asks the gateway again.
ReplyWithoutCallsGoesOn ==
    \E ai_response \in Replies :
        /\ pc = "generate"
        /\ ~facts[ai_response].raises
        /\ facts[ai_response].calls = <<>>
        /\ genCalls' = genCalls + 1
        /\ sent' = messages
        /\ messages' = AppendMessage(messages, Message("assistant", ai_response))
        /\ parseCalls' = parseCalls + 1
        /\ tool_calls' = <<>>
        /\ results' = <<>>
        /\ IF turn < max_turns
           THEN turn' = turn + 1 /\ pc' = "generate"
           ELSE turn' = turn /\ pc' = "done"
        /\ UNCHANGED << max_turns, idx, signal, safe_mode, fs, spawned, trace,
                        wsLast, response, extracted, facts, tools >>

\* llm.generate returns a reply in which _extract_tool_calls finds nothing
\* (lines 102-167 with `not tool_calls`).  Only when the reply holds a marker
\* tag does the block of lines 123-153 run: the recovery by hand, then the
\* done-word check and its break.  Without a tag the loop body goes on to
\* `Execute tools` with no calls, results stays empty, and line 167 breaks.
ReplyWithoutCalls ==
    \E ai_response \in Replies :
        /\ pc = "generate"
        /\ ~facts[ai_response].raises
        /\ facts[ai_response].calls = <<>>
        /\ genCalls' = genCalls + 1
        /\ sent' = messages
        /\ messages' = AppendMessage(messages, Message("assistant", ai_response))
        /\ parseCalls' = parseCalls + 1
        /\ IF facts[ai_response].marker
           THEN /\ tool_calls' = facts[ai_response].recovered
                /\ signal' = IF facts[ai_response].done THEN SigCompleted
                             ELSE SigNoToolCalls
           ELSE /\ tool_calls' = <<>>
                /\ signal' = signal
        /\ results' = <<>>
        /\ pc' = "done"
        /\ UNCHANGED << max_turns, turn, idx, safe_mode, fs, spawned, trace,
                        wsLast, response, extracted, facts, tools >>

\* llm.generate returns a reply on which _extract_tool_calls raises (line
\* 116): the reply is in the history already (line 110) and nothing catches
\* the exception in execute_task.
ParserRaises ==
    \E ai_response \in Replies :
        /\ pc = "generate"
        /\ facts[ai_response].raises
        /\ genCalls' = genCalls + 1
        /\ sent' = messages
        /\ messages' = AppendMessage(messages, Message("assistant", ai_response))
        /\ parseCalls' = parseCalls + 1
        /\ pc' = "raised"
        /\ UNCHANGED << max_turns, turn, tool_calls, idx, results, signal,
                        safe_mode, fs, spawned, trace, wsLast, response,
                        extracted, facts, tools >>

\* llm.generate returns a reply with tool calls: the loop over them starts.
ReplyWithCalls ==
    \E ai_response \in Replies :
        /\ pc = "generate"
        /\ ~facts[ai_response].raises
        /\ facts[ai_response].calls # <<>>
        /\ genCalls' = genCalls + 1
        /\ sent' = messages
        /\ messages' = AppendMessage(messages, Message("assistant", ai_response))
        /\ parseCalls' = parseCalls + 1
        /\ tool_calls' = facts[ai_response].calls
        /\ idx' = 1
        /\ results' = <<>>
        /\ pc' = "exec_tool"
        /\ UNCHANGED << max_turns, turn, signal, safe_mode, fs, spawned, trace,
                        wsLast, response, extracted, facts, tools >>

\* _exec_tool has returned `result` for tool_calls[idx], leaving the events
\* evs: the entry is added to results (line 160); after the last call the
\* results message is appended (line 165) and the loop goes to its next turn,
\* or ends when the range is exhausted.
CallReturns(result, evs) ==
    \E results2 \in
          {IF result # ""
           THEN Append(results, PyStr(tool_calls[idx].tool_name) \o ": " \o result)
           ELSE results} :
        /\ trace' = trace \o evs \o <<Event("return", result)>>
        /\ results' = results2
        /\ IF idx < Len(tool_calls)
           THEN /\ idx' = idx + 1
                /\ pc' = "exec_tool"
                /\ UNCHANGED << messages, turn >>
           ELSE /\ idx' = idx
                /\ IF results2 # <<>>
                   THEN /\ messages' =
                             AppendMessage(messages,
                                           Message("user", ResultsMsg(results2)))
                        /\ IF turn < max_turns
                           THEN turn' = turn + 1 /\ pc' = "generate"
                           ELSE turn' = turn /\ pc' = "done"
                   ELSE /\ pc' = "done"
                        /\ UNCHANGED << messages, turn >>

\* Lines 360-380 of _exec_tool: tool.execute(**parameters) runs, the process
\* of run_command ending as the environment decides, and its result returns.
Executes(tool, evs) ==
    \E outcome \in IF tool.name = "run_command" THEN ProcessOutcomes ELSE {"exit0"} :
        \E r \in {ToolExecute(tool, tool_calls[idx].parameters.v, fs, safe_mode,
                              outcome)} :
            /\ fs' = r.fs
            /\ spawned' = spawned + (IF r.spawned THEN 1 ELSE 0)
            /\ CallReturns(ExecReturn(r), evs \o <<Event("execute", tool.name)>>)

\* _exec_tool, lines 324-332: no tool of the registry has the name.
ToolNotFound ==
    /\ pc = "exec_tool"
    /\ FindTool(tools, tool_calls[idx].tool_name) = 0
    /\ CallReturns("Error: Tool " \o PyStr(tool_calls[idx].tool_name)
                     \o " not found", <<>>)
    /\ UNCHANGED << max_turns, tool_calls, signal, safe_mode, fs, spawned,
                    genCalls, parseCalls, sent, wsLast,
                            response, extracted, facts, tools >>

\* _exec_tool, line 340: parameters.items() on a value that is not a dict
\* raises AttributeError outside the try; nothing catches it, in _exec_tool
\* or in execute_task.
DisplayRaises ==
    /\ pc = "exec_tool"
    /\ FindTool(tools, tool_calls[idx].tool_name) # 0
    /\ tool_calls[idx].parameters.k # "dict"
    /\ trace' = Append(trace, Event("raise", "AttributeError"))
    /\ pc' = "raised"
    /\ UNCHANGED << max_turns, turn, messages, tool_calls, idx, results,
                    signal, safe_mode, fs, spawned, genCalls, parseCalls, sent,
                    wsLast, response, extracted, facts, tools >>

\* _exec_tool, line 349: the tool requires confirmation and input() blocks.
AsksConfirmation ==
    /\ pc = "exec_tool"
    /\ FindTool(tools, tool_calls[idx].tool_name) # 0
    /\ tool_calls[idx].parameters.k = "dict"
    /\ tools[FindTool(tools, tool_calls[idx].tool_name)].requires_confirmation
    /\ pc' = "confirm1"
    /\ UNCHANGED << max_turns, turn, messages, tool_calls, idx, results,
                    signal, safe_mode, fs, spawned, genCalls, parseCalls, sent,
                    trace, wsLast,
                            response, extracted, facts, tools >>

\* _exec_tool for a tool that requires no confirmation: it executes at once.
ExecutesUnconfirmed ==
    /\ pc = "exec_tool"
    /\ FindTool(tools, tool_calls[idx].tool_name) # 0
    /\ tool_calls[idx].parameters.k = "dict"
    /\ \E tool \in {tools[FindTool(tools, tool_calls[idx].tool_name)]} :
           /\ ~tool.requires_confirmation
           /\ Executes(tool, <<>>)
    /\ UNCHANGED << max_turns, tool_calls, signal, safe_mode, genCalls,
                    parseCalls, sent, wsLast,
                            response, extracted, facts, tools >>

\* The user answers the first prompt (lines 349-358): 'v' with a content
\* parameter shows it and asks again; 'y' or 'yes' executes; anything else,
\* 'v' without a content parameter included, cancels.
AnswersFirstPrompt ==
    \E answer \in Answers :
      \E choice \in {Choice(answer)} :
        LET tc == tool_calls[idx]
            ev == <<Event("ask1", choice)>>
        IN  /\ pc = "confirm1"
            /\ IF choice = "v" /\ "content" \in DOMAIN tc.parameters.v
               THEN /\ pc' = "confirm2"
                    /\ trace' = trace \o ev
                    /\ UNCHANGED << turn, messages, idx, results, fs, spawned >>
               ELSE IF ~Proceeds(choice)
               THEN /\ CallReturns("Cancelled by user", ev)
                    /\ UNCHANGED << fs, spawned >>
               ELSE Executes(tools[FindTool(tools, tc.tool_name)], ev)
            /\ UNCHANGED << max_turns, tool_calls, signal, safe_mode, genCalls,
                            parseCalls, sent, wsLast,
                            response, extracted, facts, tools >>

\* The user answers the second prompt (lines 354-358).
AnswersSecondPrompt ==
    \E answer \in Answers :
      \E choice \in {Choice(answer)} :
        LET tc == tool_calls[idx]
            ev == <<Event("ask2", choice)>>
        IN  /\ pc = "confirm2"
            /\ IF ~Proceeds(choice)
               THEN /\ CallReturns("Cancelled by user", ev)
                    /\ UNCHANGED << fs, spawned >>
               ELSE Executes(tools[FindTool(tools, tc.tool_name)], ev)
            /\ UNCHANGED << max_turns, tool_calls, signal, safe_mode, genCalls,
                            parseCalls, sent, wsLast,
                            response, extracted, facts, tools >>

Next ==
    \/ GenerateFails
    \/ ReplyWithoutCalls
    \/ ReplyWithCalls
    \/ ParserRaises
    \/ ToolNotFound
    \/ DisplayRaises
    \/ AsksConfirmation
    \/ ExecutesUnconfirmed
    \/ AnswersFirstPrompt
    \/ AnswersSecondPrompt

Spec == Init /\ [][Next]_vars

(***************************************************************************)
(* The workspace and the path-taking tools called directly, one operation  *)
(* after another on the same filesystem                                     *)
(***************************************************************************)

\* The path arguments: inside the workspace, in a directory still to be
\* made, reaching out of it by "..", and absolute.
WsPaths ==
    {"a.py", "sub/b.py", "../etc/passwd", "/etc/passwd", "../etc/new/x",
     "sub/../../etc/passwd"}

\* The contents written: a text of one line, and a text whose line ends in
\* a carriage return and a line feed.
WsContents == {"hi", "a\r\nb"}

\* The registered tools whose execute() takes a filepath.
PathTools == {"read_file", "create_file", "write_file", "file_info"}

InitWs ==
    /\ pc = "idle"
    /\ max_turns = 0
    /\ turn = 0
    /\ messages = <<>>
    /\ tool_calls = <<>>
    /\ idx = 0
    /\ results = <<>>
    /\ signal = ""
    /\ safe_mode = FALSE
    /\ fs = InitialFs
    /\ spawned = 0
    /\ genCalls = 0
    /\ parseCalls = 0
    /\ sent = <<>>
    /\ trace = <<>>
    /\ wsLast = NoOp
    /\ response = ""
    /\ extracted = NoExtract
    /\ facts = ReplyFacts
    /\ tools = GetAllTools

WsReadFile ==
    \E filepath \in WsPaths :
      \E r \in {ReadFile(fs, StrV(filepath))} :
        /\ wsLast' = Op("read_file", filepath, r.ok, r.text, fs, fs)
        /\ UNCHANGED << agentVars, fs >>

WsWriteFile ==
    \E filepath \in WsPaths, content \in WsContents :
      \E r \in {WriteFile(fs, StrV(filepath), StrV(content))} :
        /\ fs' = r.fs
        /\ wsLast' = Op("write_file", filepath, r.ret, "", fs, r.fs)
                        @@ [content |-> content]
        /\ UNCHANGED agentVars

WsDeleteFile ==
    \E filepath \in WsPaths :
      \E r \in {DeleteFile(fs, StrV(filepath))} :
        /\ fs' = r.fs
        /\ wsLast' = Op("delete_file", filepath, r.ret, "", fs, r.fs)
        /\ UNCHANGED agentVars

WsFileExists ==
    \E filepath \in WsPaths :
      \E r \in {FileExists(fs, StrV(filepath))} :
        /\ wsLast' = Op("file_exists", filepath, r.ret,
                        IF r.ret THEN "exists" ELSE "", fs, fs)
        /\ UNCHANGED << agentVars, fs >>

WsGetFileInfo ==
    \E filepath \in WsPaths :
      \E r \in {GetFileInfo(fs, StrV(filepath))} :
        /\ wsLast' = Op("get_file_info", filepath, r.ok,
                        IF r.ok THEN IntStr(r.size) \o r.extension ELSE "",
                        fs, fs)
        /\ UNCHANGED << agentVars, fs >>

\* tool.execute(filepath=..., content=...) of a path-taking tool.
WsToolExecute ==
    \E i \in 1..Len(tools), filepath \in WsPaths, content \in WsContents :
      /\ tools[i].name \in PathTools
      /\ \E args \in {IF "content" \in tools[i].required
                       THEN [filepath |-> StrV(filepath),
                             content |-> StrV(content)]
                       ELSE [filepath |-> StrV(filepath)]} :
           \E r \in {ToolExecute(tools[i], args, fs, safe_mode, "exit0")} :
             /\ fs' = r.fs
             /\ wsLast' = Op(tools[i].name \o ".execute", filepath,
                             r.success, r.output, fs, r.fs)
      /\ UNCHANGED agentVars

NextWs ==
    \/ WsReadFile
    \/ WsWriteFile
    \/ WsDeleteFile
    \/ WsFileExists
    \/ WsGetFileInfo
    \/ WsToolExecute

SpecWs == InitWs /\ [][NextWs]_vars

(***************************************************************************)
(* The tools of the registry called directly, in either mode                *)
(***************************************************************************)

\* The command lines run_command is called with: none, refused in safe mode,
\* and allowed by the first, by a longer and by an outgrown prefix.
Commands == {" ", "rm -rf /", "python script.py", "pip3 list", "catalog"}

\* The most processes the direct calls start.
MaxSpawned == 2

\* get_all_tools(workspace, safe_mode) has built the registry.
InitTools ==
    /\ pc = "idle"
    /\ max_turns = 0
    /\ turn = 0
    /\ messages = <<>>
    /\ tool_calls = <<>>
    /\ idx = 0
    /\ results = <<>>
    /\ signal = ""
    /\ safe_mode \in BOOLEAN
    /\ fs = InitialFs
    /\ spawned = 0
    /\ genCalls = 0
    /\ parseCalls = 0
    /\ sent = <<>>
    /\ trace = <<>>
    /\ wsLast = NoOp
    /\ response = ""
    /\ extracted = NoExtract
    /\ facts = ReplyFacts
    /\ tools = GetAllTools

\* The values the "command" parameter takes: the command lines, and a number,
\* which a reply may hold as well as a text.
CommandValues == {StrV(c) : c \in Commands} \cup {NumV("5")}

\* The record of one run_command call: the command, the mode, what the
\* environment made of the process, and the ToolResult.
RunOp(command, outcome, r) ==
    [op |-> "run_command.execute", command |-> command, safe_mode |-> safe_mode,
     outcome |-> outcome, raised |-> r.raised, ok |-> r.success,
     output |-> r.output, error |-> r.error, metadata |-> r.metadata,
     spawned |-> r.spawned]

\* tool.execute(command=...) of run_command.
RunsCommand ==
    \E command \in CommandValues, outcome \in ProcessOutcomes :
      \E tool \in {tools[FindTool(tools, StrV("run_command"))]} :
        \E r \in {ToolExecute(tool, [command |-> command], fs, safe_mode,
                               outcome)} :
          /\ spawned < MaxSpawned
          /\ spawned' = spawned + (IF r.spawned THEN 1 ELSE 0)
          /\ wsLast' = RunOp(command, outcome, r)
          /\ UNCHANGED << pc, max_turns, turn, messages, tool_calls, idx,
                          results, signal, safe_mode, fs, genCalls, parseCalls,
                          sent, trace, response, extracted, facts, tools >>

\* tool.to_openai_tool() of a tool of the registry.
ConvertsTool ==
    \E i \in 1..Len(tools) :
        /\ wsLast' = [op |-> "to_openai_tool", tool |-> tools[i].name,
                      result |-> ToOpenAITool(tools[i])]
        /\ UNCHANGED << pc, max_turns, turn, messages, tool_calls, idx,
                        results, signal, safe_mode, fs, spawned, genCalls,
                        parseCalls, sent, trace, response, extracted, facts,
                        tools >>

NextTools ==
    \/ RunsCommand
    \/ ConvertsTool

SpecTools == InitTools /\ [][NextTools]_vars

(***************************************************************************)
(* _extract_tool_calls called directly on one reply text                    *)
(***************************************************************************)

\* What a reply holds where a tool call is expected: well-formed calls, JSON
\* values that are no call, malformed and unbalanced texts, a brace inside a
\* string, a call with a "reasoning" key, two calls side by side and one
\* inside another, and integers at and above the length int() accepts.
ParseBodies ==
    { JsonReadA, JsonCreateB, JsonUnknown, JsonReadNull,
      "{\"parameters\": {}}",
      "[1, 2]",
      "\"tool\"",
      "null",
      "7",
      "",
      "{\"tool\": \"read_file\"",
      "}{",
      "{\"tool\": read_file}",
      "{\"tool\": \"list_files\", \"reason\": \"}\"}",
      "{\"a\": {\"tool\": \"list_files\"}}",
      "{\"tool\": \"list_files\", \"reasoning\": \"look\"}",
      JsonList \o " then " \o JsonReadA,
      "{\"tool\": \"get_tree\", \"parameters\": {\"tool\": \"x\"}}",
      JsonTreeDeep, JsonTreeTooDeep,
      Repeat("9", IntMaxStrDigits + 1) }

\* Where the reply holds it: in a fenced block, in a fenced block with the
\* opener in capitals and blanks after it, in a fenced block followed by a
\* second one, after each of the two marker tags, and in plain text.
ParseWraps == {"fence", "FENCE", "fences", "constrain", "message", "text"}

Wrap(kind, body) ==
    CASE kind = "fence" -> Fenced(body)
      [] kind = "FENCE" -> "~~~JSON  \n" \o body \o FenceClose
      [] kind = "fences" -> Fenced(body) \o "\n" \o Fenced(JsonReadA)
      [] kind = "constrain" -> "<|channel|>commentary" \o MarkerConstrain \o body
      [] kind = "message" -> MarkerMessage \o " \n" \o body \o "<|end|>"
      [] OTHER -> "I will call " \o body \o " now."

ParseInputs == {Wrap(kind, body) : kind \in ParseWraps, body \in ParseBodies}

\* About to call _extract_tool_calls(response).
InitParse ==
    /\ pc = "extract"
    /\ max_turns = 0
    /\ turn = 0
    /\ messages = <<>>
    /\ tool_calls = <<>>
    /\ idx = 0
    /\ results = <<>>
    /\ signal = ""
    /\ safe_mode = FALSE
    /\ fs = InitialFs
    /\ spawned = 0
    /\ genCalls = 0
    /\ parseCalls = 0
    /\ sent = <<>>
    /\ trace = <<>>
    /\ wsLast = NoOp
    /\ facts = ReplyFacts
    /\ tools = GetAllTools
    /\ response \in ParseInputs
    /\ extracted = NoExtract

\* _extract_tool_calls returns its list.
ExtractReturns ==
    /\ pc = "extract"
    /\ ~ExtractRaises(response)
    /\ extracted' = [raised |-> FALSE, calls |-> ExtractToolCalls(response),
                     returned |-> TRUE]
    /\ pc' = "idle"
    /\ UNCHANGED << max_turns, turn, messages, tool_calls, idx, results, signal,
                    safe_mode, fs, spawned, genCalls, parseCalls, sent, trace,
                    wsLast, response, facts, tools >>

\* _extract_tool_calls is left by an exception.
ExtractFails ==
    /\ pc = "extract"
    /\ ExtractRaises(response)
    /\ extracted' = [raised |-> TRUE, calls |-> <<>>, returned |-> FALSE]
    /\ pc' = "idle"
    /\ UNCHANGED << max_turns, turn, messages, tool_calls, idx, results, signal,
                    safe_mode, fs, spawned, genCalls, parseCalls, sent, trace,
                    wsLast, response, facts, tools >>

NextParse ==
    \/ ExtractReturns
    \/ ExtractFails

SpecParse == InitParse /\ [][NextParse]_vars

(***************************************************************************)
(* Properties                                                              *)
(***************************************************************************)

\* The events the step adds to the trace.
NewEvents == SubSeq(trace', Len(trace) + 1, Len(trace'))

\* The registered tool of that name requires confirmation.
RequiresConfirmation(name) ==
    \E i \in 1..Len(tools) :
        tools[i].name = name /\ tools[i].requires_confirmation

\* The name is one of the registry.
Registered(tool_name) ==
    /\ tool_name.k = "str"
    /\ \E i \in 1..Len(tools) : tools[i].name = tool_name.v

IsAsk(e) == e.ev \in {"ask1", "ask2"}

\* The model's reply of turn t (each finished turn adds the reply and the
\* results message), and the calls the parser found in it.
GotReply(t) == Len(messages) >= 2 * t + 1 /\ messages[2 * t + 1].role = "assistant"
CallsOfTurn(t) == facts[messages[2 * t + 1].content].calls

\* execute_task is no longer in its loop: it returned or an exception left it.
LoopEnded == pc \in {"done", "raised"}

\* The path resolves to a place that is not the root or below it.
ResolvesOutside(text) == ~IsRelativeTo(Resolve(JoinPath(Root, text)), Root)

\* C1: a tool that requires confirmation executes only right after a final
\* answer 'y' or 'yes' given for that very call; the filesystem and the
\* process count change only in a step that executes a tool; and a final
\* answer that is anything else makes the call return "Cancelled by user"
\* with no execution, no file written and no process spawned.
C1_ConfirmationGate ==
    [][ /\ \A i \in 1..Len(NewEvents) :
             (NewEvents[i].ev = "execute"
                /\ RequiresConfirmation(NewEvents[i].arg))
             => /\ i > 1
                /\ IsAsk(NewEvents[i - 1])
                /\ NewEvents[i - 1].arg \in {"y", "yes"}
                /\ NewEvents[i - 1].turn = NewEvents[i].turn
                /\ NewEvents[i - 1].idx = NewEvents[i].idx
        /\ (fs' # fs \/ spawned' # spawned)
             => \E i \in 1..Len(NewEvents) : NewEvents[i].ev = "execute"
        /\ \A i \in 1..Len(NewEvents) :
             (IsAsk(NewEvents[i]) /\ pc' \notin {"confirm1", "confirm2"}
                /\ NewEvents[i].arg \notin {"y", "yes"})
             => /\ \A j \in 1..Len(NewEvents) : NewEvents[j].ev # "execute"
                /\ fs' = fs
                /\ spawned' = spawned
                /\ NewEvents[Len(NewEvents)].ev = "return"
                /\ NewEvents[Len(NewEvents)].arg = "Cancelled by user"
      ]_vars

\* A run in which one confirmed call was cancelled at the second prompt and
\* another was executed after its confirmation.
C1_Witness ==
    /\ \E i \in 1..(Len(trace) - 1) :
          /\ trace[i].ev = "ask2" /\ trace[i].arg = "n"
          /\ trace[i + 1].ev = "return"
          /\ trace[i + 1].arg = "Cancelled by user"
    /\ \E i \in 2..Len(trace) :
          /\ trace[i].ev = "execute" /\ RequiresConfirmation(trace[i].arg)
          /\ trace[i - 1].arg = "yes"

\* C2: read_file, write_file and delete_file, given a path that resolves
\* outside the root, return None / False, hand back no text and leave the
\* filesystem as it was.
C2_OutsideRejected ==
    (wsLast.op \in {"read_file", "write_file", "delete_file"}
       /\ ResolvesOutside(wsLast.filepath))
    => ~wsLast.ok /\ wsLast.revealed = "" /\ ~wsLast.changed

\* write_file was asked to create a file in a new directory outside the root
\* and refused.
C2_Witness ==
    /\ wsLast.op = "write_file"
    /\ wsLast.filepath = "../etc/new/x"
    /\ ~wsLast.ok
    /\ <<"etc", "new">> \notin fs.dirs

\* C3: every workspace operation and every path-taking tool, given a path
\* that resolves outside the root, fails and hands back nothing about the
\* target.
C3_EveryPathOperationRejects ==
    (wsLast.op # "" /\ ResolvesOutside(wsLast.filepath))
    => ~wsLast.ok /\ wsLast.revealed = ""

\* C4: when the loop ended in a turn whose reply the parser found no call
\* in, the signal is "Task completed!" if the reply holds a completion word
\* and the "No tool calls detected" warning otherwise, marker tag or not.
C4_CompletionHeuristic ==
    (pc = "done" /\ GotReply(turn) /\ CallsOfTurn(turn) = <<>>)
    => signal = IF HasDoneWord(messages[2 * turn + 1].content)
                THEN SigCompleted ELSE SigNoToolCalls

\* C5: the step in which generate fails appends nothing to the history,
\* runs no parser, confirms and executes nothing and ends the loop; and once
\* the failure is signalled the task has ended with the history equal to
\* the one sent, one generate call per turn and none after the failure.
C5_GatewayFailureEndsTask ==
    /\ [](signal = SigLLMFailed
            => /\ pc = "done"
               /\ messages = sent
               /\ genCalls = turn
               /\ parseCalls = turn - 1
               /\ \A i \in 1..Len(trace) : trace[i].turn < turn
               /\ messages[Len(messages)].role # "assistant")
    /\ [][(signal' = SigLLMFailed /\ signal # SigLLMFailed)
            => /\ messages' = messages
               /\ parseCalls' = parseCalls
               /\ trace' = trace
               /\ fs' = fs
               /\ spawned' = spawned
               /\ pc' = "done"]_vars

\* generate failed in the second turn, after a turn that ran tools.
C5_Witness ==
    signal = SigLLMFailed /\ turn = 2 /\ Len(messages) = 4 /\ trace # <<>>

\* C6: the turn index stays within 1..max_turns and generate is called at
\* most max_turns times; and when the loop has ended in turn max_turns after
\* the parser found calls, it ended as done without a signal, with no further
\* generate call and with the results message appended last.
C6_TurnCap ==
    /\ 1 <= turn /\ turn <= max_turns
    /\ genCalls <= max_turns
    /\ (LoopEnded /\ turn = max_turns /\ GotReply(turn)
          /\ CallsOfTurn(turn) # <<>>)
       => /\ pc = "done"
          /\ signal = ""
          /\ genCalls = max_turns
          /\ Len(messages) = 2 * turn + 2
          /\ messages[2 * turn + 2].role = "user"

\* C7: the history starts as one system and one user message, and every step
\* leaves it as it is or adds one message at its end.
C7_HistoryAppendOnly ==
    /\ Len(messages) = 2
    /\ messages[1].role = "system"
    /\ messages[2].role = "user"
    /\ [][ \/ messages' = messages
           \/ /\ Len(messages') = Len(messages) + 1
              /\ SubSeq(messages', 1, Len(messages)) = messages ]_vars

\* Two full turns: reply, results, reply, results after the two seeds.
C7_Witness ==
    /\ Len(messages) = 6
    /\ messages[3].role = "assistant" /\ messages[4].role = "user"
    /\ messages[5].role = "assistant" /\ messages[6].role = "user"

\* C8: a call that names no registered tool is answered with the "not
\* found" error, with no prompt and no execution for it, and once its turn
\* is over that error is an entry of the results message in the history.
C8_UnknownToolReported ==
    \A i \in 1..Len(trace) :
        (trace[i].ev = "return"
           /\ ~Registered(CallsOfTurn(trace[i].turn)[trace[i].idx].tool_name))
        => /\ trace[i].arg =
                "Error: Tool "
                  \o PyStr(CallsOfTurn(trace[i].turn)[trace[i].idx].tool_name)
                  \o " not found"
           /\ \A j \in 1..Len(trace) :
                (trace[j].turn = trace[i].turn /\ trace[j].idx = trace[i].idx)
                => trace[j].ev = "return"
           /\ (LoopEnded \/ turn > trace[i].turn)
                => /\ Len(messages) >= 2 * trace[i].turn + 2
                   /\ messages[2 * trace[i].turn + 2].role = "user"
                   /\ Contains(messages[2 * trace[i].turn + 2].content,
                               trace[i].arg)

\* The parameters of a call to a registered tool are not a mapping, or lack
\* a required parameter, or hold an unknown one.
BadParameters(call) ==
    \/ call.parameters.k # "dict"
    \/ \E i \in 1..Len(GetAllTools) :
          /\ GetAllTools[i].name = call.tool_name.v
          /\ \/ GetAllTools[i].required \ DOMAIN call.parameters.v # {}
             \/ (DOMAIN call.parameters.v)
                  \ (GetAllTools[i].required \cup GetAllTools[i].optional) # {}

\* C9: no exception leaves _exec_tool or execute_task, and every call to a
\* registered tool with faulty parameters that went on to execute returned an
\* "Error: ..." result.
C9_ParameterFaultsCaught ==
    /\ pc # "raised"
    /\ \A i \in 1..Len(trace) : trace[i].ev # "raise"
    /\ \A i \in 2..Len(trace) :
          (trace[i].ev = "return" /\ trace[i - 1].ev = "execute"
             /\ BadParameters(CallsOfTurn(trace[i].turn)[trace[i].idx]))
          => StartsWithAt(trace[i].arg, 1, "Error: ")

\* C10: a turn before the last in which the parser found calls does not end
\* the loop: while it lasts its calls are handled, and after it the results
\* message holds the result text of each of its calls and the next turn has
\* begun.
C10_FailuresNeverAbort ==
    \A t \in 1..(max_turns - 1) :
        (GotReply(t) /\ CallsOfTurn(t) # <<>> /\ turn >= t)
        => \/ turn = t /\ pc \in {"exec_tool", "confirm1", "confirm2"}
           \/ /\ turn > t
              /\ messages[2 * t + 2].role = "user"
              /\ \A i \in 1..Len(trace) :
                    (trace[i].turn = t /\ trace[i].ev = "return")
                    => Contains(messages[2 * t + 2].content, trace[i].arg)

\* The turn t is over: the loop has ended or gone on to a later turn.
TurnOver(t) == LoopEnded \/ turn > t

\* _exec_tool has returned for call k of turn t.
Returned(t, k) ==
    \E i \in 1..Len(trace) :
        trace[i].turn = t /\ trace[i].idx = k /\ trace[i].ev = "return"

\* C11: the events of _exec_tool come call by call in parse order: after an
\* event that is not a return the next event belongs to the same call, after
\* a return it belongs to the next call of the turn or, after the last call,
\* to the first call of the next turn; and once a turn is over every call the
\* parser found in it was handled to its return, whatever the calls before
\* it ended in.
C11_ParseOrderOneAtATime ==
    /\ trace # <<>> => (trace[1].turn = 1 /\ trace[1].idx = 1)
    /\ \A i \in 1..(Len(trace) - 1) :
          IF trace[i].ev = "return"
          THEN \/ /\ trace[i + 1].turn = trace[i].turn
                  /\ trace[i + 1].idx = trace[i].idx + 1
               \/ /\ trace[i].idx = Len(CallsOfTurn(trace[i].turn))
                  /\ trace[i + 1].turn = trace[i].turn + 1
                  /\ trace[i + 1].idx = 1
          ELSE /\ trace[i + 1].turn = trace[i].turn
               /\ trace[i + 1].idx = trace[i].idx
    /\ \A t \in 1..turn :
          (GotReply(t) /\ TurnOver(t))
          => \A k \in 1..Len(CallsOfTurn(t)) : Returned(t, k)

\* The entries `tool_name: result` of the calls of turn t, in parse order.
EntriesOfTurn(t) ==
    [k \in 1..Len(CallsOfTurn(t)) |->
        PyStr(CallsOfTurn(t)[k].tool_name) \o ": "
          \o trace[CHOOSE i \in 1..Len(trace) :
                     /\ trace[i].turn = t /\ trace[i].idx = k
                     /\ trace[i].ev = "return"].arg]

\* C12: no call returns twice, and once a turn in which the parser found
\* n >= 1 calls is over, each of the n calls has returned and the history
\* holds, right after the reply of that turn, one user message made of the n
\* entries in parse order, followed by nothing or by the next reply.
C12_OneResultPerCall ==
    /\ \A i, j \in 1..Len(trace) :
          (trace[i].ev = "return" /\ trace[j].ev = "return"
             /\ trace[i].turn = trace[j].turn /\ trace[i].idx = trace[j].idx)
          => i = j
    /\ \A t \in 1..turn :
          (GotReply(t) /\ CallsOfTurn(t) # <<>> /\ TurnOver(t))
          => /\ \A k \in 1..Len(CallsOfTurn(t)) : Returned(t, k)
             /\ Len(messages) >= 2 * t + 2
             /\ messages[2 * t + 2] = Message("user", ResultsMsg(EntriesOfTurn(t)))
             /\ Len(messages) > 2 * t + 2 => messages[2 * t + 3].role = "assistant"

\* C13: _extract_tool_calls never ends in an exception: whatever the reply
\* text, it returns a list of tool calls.
C13_ParserNeverRaises == pc = "idle" => (extracted.returned /\ ~extracted.raised)

\* The last direct call was run_command on a command with a first token.
RanCommand ==
    /\ wsLast.op = "run_command.execute"
    /\ wsLast.command.k = "str"
    /\ BaseCommand(wsLast.command.v) # ""

\* The first token starts with one of the allow-listed prefixes.
HasAllowedPrefix(command) ==
    \E i \in 1..Len(AllowedCommands) :
        StartsWithAt(BaseCommand(command), 1, AllowedCommands[i])

\* The error is the refusal of safe mode.
IsRefusal(error) == Contains(error, "not allowed in safe mode")

\* C14: in safe mode a command whose first token starts with no allow-listed
\* prefix fails with the refusal, which names every allow-listed command, and
\* no process is started for it; a command whose first token does start with
\* one is not refused and goes to subprocess.run, which starts the process
\* unless the executable cannot be started.
C14_SafeModeGate ==
    (RanCommand /\ wsLast.safe_mode)
    => IF HasAllowedPrefix(wsLast.command.v)
       THEN /\ ~IsRefusal(wsLast.error)
            /\ wsLast.spawned <=> wsLast.outcome \in {"exit0", "exit1", "timeout"}
       ELSE /\ ~wsLast.raised /\ ~wsLast.ok /\ ~wsLast.spawned
            /\ IsRefusal(wsLast.error)
            /\ \A i \in 1..Len(AllowedCommands) :
                  Contains(wsLast.error, AllowedCommands[i])

\* In safe mode 'rm -rf /' was refused after 'python script.py' had run.
C14_Witness ==
    /\ wsLast.op = "run_command.execute"
    /\ wsLast.safe_mode
    /\ wsLast.command = StrV("rm -rf /")
    /\ IsRefusal(wsLast.error)
    /\ spawned > 0

\* The kinds of outcome the result of a run_command call shows the marks of.
OutcomeKinds(w) ==
    { kind \in {"empty", "refused", "exit0", "nonzero", "timeout", "notfound",
                "other"} :
        CASE kind = "empty" ->
               ~w.ok /\ w.error = "Empty command" /\ ~w.spawned
          [] kind = "refused" -> ~w.ok /\ IsRefusal(w.error) /\ ~w.spawned
          [] kind = "exit0" ->
               /\ w.ok
               /\ "returncode" \in DOMAIN w.metadata
               /\ w.metadata.returncode = 0
          [] kind = "nonzero" ->
               /\ ~w.ok
               /\ "returncode" \in DOMAIN w.metadata
               /\ w.metadata.returncode # 0
               /\ w.error = "Command exited with code "
                               \o IntStr(w.metadata.returncode)
          [] kind = "timeout" ->
               /\ ~w.ok
               /\ w.error = "Command timed out after 60 seconds"
               /\ DOMAIN w.metadata = {}
          [] kind = "notfound" ->
               /\ ~w.ok
               /\ StartsWithAt(w.error, 1, "Command not found: ")
               /\ DOMAIN w.metadata = {}
          [] OTHER ->
               /\ ~w.ok
               /\ StartsWithAt(w.error, 1, "Error running command: ")
               /\ DOMAIN w.metadata = {} }

\* C15: every run_command call returns without raising, and its result shows
\* the marks of exactly one kind of outcome: one of the five specified
\* (empty command, exit code 0, non-zero exit with the code in the metadata,
\* timeout, executable not found), or one of the two the code reports besides
\* them (refusal in safe mode, another error of starting the process).
C15_NeverRaisesOneOutcome ==
    wsLast.op = "run_command.execute"
    => /\ ~wsLast.raised
       /\ Cardinality(OutcomeKinds(wsLast)) = 1

\* write_file(p, content) returned True and read_file(p) is the next call.
ReadsBackWritten ==
    /\ wsLast.op = "write_file" /\ wsLast.ok
    /\ wsLast'.op = "read_file" /\ wsLast'.filepath = wsLast.filepath

\* C16: a read_file(p) that follows a write_file(p, content) that returned
\* True returns exactly content, whatever p held before the write.
C16_WriteReadRoundTrip ==
    [][ReadsBackWritten => (wsLast'.ok /\ wsLast'.revealed = wsLast.content)]_vars

\* The one call of turn t was a create_file with a path inside the root and
\* a text content, and it was executed, which for create_file takes the
\* user's approval.
CreatedIn(t) ==
    /\ GotReply(t)
    /\ Len(CallsOfTurn(t)) = 1
    /\ CallsOfTurn(t)[1].tool_name = StrV("create_file")
    /\ CallsOfTurn(t)[1].parameters.k = "dict"
    /\ {"filepath", "content"} \subseteq DOMAIN CallsOfTurn(t)[1].parameters.v
    /\ CallsOfTurn(t)[1].parameters.v["filepath"].k = "str"
    /\ CallsOfTurn(t)[1].parameters.v["content"].k = "str"
    /\ InsideRoot(CallsOfTurn(t)[1].parameters.v["filepath"].v)
    /\ \E i \in 1..Len(trace) :
          /\ trace[i].turn = t
          /\ trace[i].ev = "execute"
          /\ trace[i].arg = "create_file"

\* The reply of turn t holds a completion word and no tool call.
CompletionReplyIn(t) ==
    /\ GotReply(t)
    /\ ~facts[messages[2 * t + 1].content].raises
    /\ CallsOfTurn(t) = <<>>
    /\ facts[messages[2 * t + 1].content].done

\* The file at the path holds exactly the text.
FileHolds(filepath, content) ==
    \E w \in {OsLookup(fs, JoinPath(Root, filepath))} :
        /\ w.err = ""
        /\ w.path \in DOMAIN fs.files
        /\ fs.files[w.path] = content

NoCallsIn(t) ==
    /\ GotReply(t)
    /\ ~facts[messages[2 * t + 1].content].raises
    /\ CallsOfTurn(t) = <<>>

\* C18: when the parser returned no call for the reply of turn k, the loop
\* has ended in turn k whatever max_turns >= k is: k generate calls were made
\* in all, _exec_tool did nothing in turn k (no prompt, no execution), and
\* the reply is the last message of the history.
C18_NoCallsEndsLoop ==
    \A k \in 1..MaxTurns :
        NoCallsIn(k)
        => /\ pc = "done"
           /\ turn = k
           /\ genCalls = k
           /\ \A i \in 1..Len(trace) : trace[i].turn # k
           /\ Len(messages) = 2 * k + 1
           /\ messages[Len(messages)].role = "assistant"

\* The first reply of a task allowed MaxTurns turns was plain text, and the task
\* ended there after one generate call.
C18_Witness ==
    /\ max_turns = MaxTurns
    /\ NoCallsIn(1)
    /\ messages[3].content = ReplyText
    /\ pc = "done" /\ genCalls = 1

\* The nine names of the standard registry.
RegistryNames ==
    {"read_file", "create_file", "write_file", "list_files", "search_code",
     "analyze_code", "run_command", "get_tree", "file_info"}

\* The call _exec_tool handled at a trace event.
CallAt(e) == CallsOfTurn(e.turn)[e.idx]

\* The registry holds nine tools of pairwise distinct names, the nine listed;
\* every call executed so far had exactly the name of the tool it went to,
\* and every call of another name came back as not found, with no prompt and
\* no execution.
ExactLookup ==
    /\ Len(tools) = 9
    /\ \A i, j \in 1..Len(tools) : tools[i].name = tools[j].name => i = j
    /\ {tools[i].name : i \in 1..Len(tools)} = RegistryNames
    /\ \A i \in 1..Len(trace) :
          /\ trace[i].ev = "execute"
               => /\ CallAt(trace[i]).tool_name = StrV(trace[i].arg)
                  /\ trace[i].arg \in RegistryNames
          /\ (trace[i].ev = "return"
                /\ \A name \in RegistryNames :
                      CallAt(trace[i]).tool_name # StrV(name))
               => /\ trace[i].arg = "Error: Tool "
                                      \o PyStr(CallAt(trace[i]).tool_name)
                                      \o " not found"
                  /\ \A j \in 1..Len(trace) :
                        (trace[j].turn = trace[i].turn
                           /\ trace[j].idx = trace[i].idx)
                        => j = i

\* C19: in every state the registry holds nine tools of pairwise distinct
\* names, the nine listed, and has dispatched calls by exact, case-sensitive
\* match of the name only; and no step of execute_task changes the registry.
C19_RegistryFixed == []ExactLookup /\ [][tools' = tools]_vars

\* read_file was executed in one turn and a call of READ_FILE came back as
\* not found in another, on the registry as it was built.
C19_Witness ==
    /\ tools = GetAllTools
    /\ \E i \in 1..Len(trace) :
          trace[i].ev = "execute" /\ trace[i].arg = "read_file"
    /\ \E i \in 1..Len(trace) :
          /\ trace[i].ev = "return"
          /\ trace[i].arg = "Error: Tool READ_FILE not found"

\* The names of the parameters that are not marked required = false.
NotMarkedOptional(parameters) ==
    { parameters[i][1] : i \in
        { j \in 1..Len(parameters) :
            ~ /\ parameters[j][2].k = "dict"
              /\ "required" \in DOMAIN parameters[j][2].v
              /\ parameters[j][2].v["required"] = BoolV(FALSE) } }

\* C20: to_openai_tool of each registered tool returns without raising, and
\* what it returns holds the tool's name, its description, and parameters of
\* type 'object' whose properties are the tool's parameters and whose
\* required list names exactly the parameters not marked required = false.
C20_ToOpenAITool ==
    wsLast.op = "to_openai_tool"
    => /\ ~wsLast.result.raised
       /\ wsLast.result.function.name = wsLast.tool
       /\ wsLast.result.function.description = ToolDescription(wsLast.tool)
       /\ wsLast.result.function.parameters.type = "object"
       /\ wsLast.result.function.parameters.properties
            = ToolParameters(wsLast.tool)
       /\ { wsLast.result.function.parameters.required[i] :
              i \in 1..Len(wsLast.result.function.parameters.required) }
            = NotMarkedOptional(ToolParameters(wsLast.tool))

\* The list is what the first tier that finds any call finds, the tiers being
\* the fenced blocks, the first marker type, the second marker type and the
\* brace scan, in that order.
FromFirstTier(calls, fenced, constrained, messaged, scanned) ==
    /\ fenced # <<>> => calls = fenced
    /\ (fenced = <<>> /\ constrained # <<>>) => calls = constrained
    /\ (fenced = <<>> /\ constrained = <<>> /\ messaged # <<>>)
         => calls = messaged
    /\ (fenced = <<>> /\ constrained = <<>> /\ messaged = <<>>)
         => calls = scanned

\* C21: the list _extract_tool_calls returns comes from one tier only: from
\* the fenced blocks when they yield a call; else from the first marker type
\* that yields a call, nothing of the other type being added; else from the
\* brace scan.
C21_Cascade ==
    extracted.returned
    => FromFirstTier(extracted.calls, Method1(response),
                     CallsOfPattern(response, MarkerConstrain),
                     CallsOfPattern(response, MarkerMessage),
                     Method3(response))

\* A call after the first marker type was returned alone, though the second
\* marker type and the brace scan find it too.
C21_Witness ==
    /\ extracted.returned
    /\ Method1(response) = <<>>
    /\ extracted.calls = CallsOfPattern(response, MarkerConstrain)
    /\ Len(extracted.calls) = 1
    /\ CallsOfPattern(response, MarkerMessage) # <<>>
    /\ Method3(response) # <<>>

\* The call a JSON object with a 'tool' key stands for when the reasoning is
\* taken from its 'reason' key or, without one, from its 'reasoning' key.
CallWithReasoning(data) ==
    [tool_name  |-> data.v["tool"],
     parameters |-> DictGet(data.v, "parameters", DictV(EmptyDict)),
     reasoning  |-> IF "reason" \in DOMAIN data.v THEN data.v["reason"]
                    ELSE DictGet(data.v, "reasoning", StrV(""))]

\* One such call for each block from the i-th on whose body is a JSON object
\* with a 'tool' key, in the order of the blocks; the other blocks are passed
\* over.
RECURSIVE CallsOfBlocks(_, _)
CallsOfBlocks(blocks, i) ==
    IF i > Len(blocks) THEN <<>>
    ELSE Bind(JsonLoads(Strip(blocks[i])), LAMBDA data :
           (IF data.ok /\ data.val.k = "dict" /\ "tool" \in DOMAIN data.val.v
            THEN <<CallWithReasoning(data.val)>>
            ELSE <<>>)
           \o CallsOfBlocks(blocks, i + 1))

\* C22: when some fenced block of the reply holds a JSON object with a 'tool'
\* key, the parser returns one call per such block, in the order of the
\* blocks, with the parameters defaulting to the empty mapping and the
\* reasoning taken from 'reason' or 'reasoning' (default empty), the blocks
\* that do not parse or lack 'tool' being passed over.
C22_FencedBlocks ==
    (extracted.returned
       /\ CallsOfBlocks(FencedBlocks(response, 1), 1) # <<>>)
    => extracted.calls = CallsOfBlocks(FencedBlocks(response, 1), 1)

\* The texts that start at a '{' right after a marker tag (blanks skipped)
\* and run to the end of the reply with that brace never closed.
TruncatedAfterMarker(s) ==
    { SubSeq(s, start, Len(s)) : start \in
        { j \in 1..Len(s) :
            /\ Ch(s, j) = "{"
            /\ BraceClose(s, j) = 0
            /\ \E p \in 1..j :
                  /\ StartsWithAt(s, p, MarkerMessage)
                  /\ \A k \in (p + Len(MarkerMessage))..(j - 1) :
                        Ch(s, k) \in {" ", "\n", "\t"} } }

\* The text with as many '}' appended as it has unmatched '{'.
ClosedWithBraces(text) ==
    text \o Repeat("}", CountCh(text, "{") - CountCh(text, "}"))

\* C23: when the fenced blocks and the complete objects after the marker tags
\* give no call and the object after a marker tag is cut off with its braces
\* open, the calls of the turn are the one call the text gives once the
\* missing braces are appended, or, when that text does not parse to a call,
\* what the brace scan finds.
C23_RepairAfterMarker ==
    \A t \in 1..MaxTurns :
        (GotReply(t) /\ turn = t
           /\ ~facts[messages[2 * t + 1].content].raises
           /\ Method1(messages[2 * t + 1].content) = <<>>
           /\ Method2(messages[2 * t + 1].content) = <<>>)
        => \A text \in TruncatedAfterMarker(messages[2 * t + 1].content) :
              tool_calls = IF CallsOfJson(ClosedWithBraces(text)) # <<>>
                           THEN CallsOfJson(ClosedWithBraces(text))
                           ELSE Method3(messages[2 * t + 1].content)

\* The '{' characters of the text whose balanced substring is a JSON object
\* with a 'tool' key.
ToolObjectStarts(s) ==
    { o \in 1..Len(s) :
        /\ Ch(s, o) = "{"
        /\ BraceClose(s, o) # 0
        /\ CallsOfJson(SubSeq(s, o, BraceClose(s, o))) # <<>> }

\* C24: a reply in which the fenced blocks and the marker tags give no call
\* yields at most one call, the one of the leftmost balanced object with a
\* 'tool' key.
C24_FirstObjectOnly ==
    (extracted.returned
       /\ Method1(response) = <<>>
       /\ Method2(response) = <<>>)
    => extracted.calls =
         IF ToolObjectStarts(response) = {} THEN <<>>
         ELSE CallsOfJson(SubSeq(response, Min(ToolObjectStarts(response)),
                                 BraceClose(response,
                                            Min(ToolObjectStarts(response)))))

\* The calls execute_task holds for the reply of turn t: those the parser
\* returned or, when it returned none, the one recovered after a marker.
RecoveredOfTurn(t) ==
    IF CallsOfTurn(t) # <<>> THEN CallsOfTurn(t)
    ELSE facts[messages[2 * t + 1].content].recovered

\* C25: once a turn is over, every call recovered from its reply, the one of
\* a repaired truncated object included, was handled by _exec_tool to its
\* return in that turn, and the results message follows the reply in the
\* history.
C25_RecoveredExecuted ==
    \A t \in 1..MaxTurns :
        (GotReply(t)
           /\ ~facts[messages[2 * t + 1].content].raises
           /\ RecoveredOfTurn(t) # <<>>
           /\ TurnOver(t))
        => /\ \A k \in 1..Len(RecoveredOfTurn(t)) : Returned(t, k)
           /\ Len(messages) >= 2 * t + 2
           /\ messages[2 * t + 2].role = "user"

\* C26: a first answer 'v' is followed by exactly one more prompt for the
\* same call, whatever the parameters of the call are, and the call executes
\* exactly when the answer to that second prompt is 'y' or 'yes'.
C26_ViewThenSecondPrompt ==
    \A i \in 1..Len(trace) :
        (trace[i].ev = "ask1" /\ trace[i].arg = "v")
        => /\ i = Len(trace) => pc = "confirm2"
           /\ i < Len(trace) =>
                 /\ trace[i + 1].ev = "ask2"
                 /\ trace[i + 1].turn = trace[i].turn
                 /\ trace[i + 1].idx = trace[i].idx
                 /\ i + 1 = Len(trace) => pc # "confirm2"
                 /\ i + 1 < Len(trace) =>
                       /\ trace[i + 2].ev # "ask2"
                       /\ trace[i + 2].ev = "execute"
                            <=> Proceeds(trace[i + 1].arg)

\* The step runs tool.execute for the call _exec_tool is at.
ExecutesNow ==
    \E i \in 1..Len(NewEvents) : NewEvents[i].ev = "execute"

\* C27: when a step executes a tool and the result carries an output text,
\* what _exec_tool returns is that output text and the entry added to the
\* results is the tool name, ': ' and that text; so the output of a command
\* that exits non-zero, its '[stderr]' section included, is in the entry.
C27_EntryIsOutput ==
    [][ExecutesNow =>
          \E outcome \in ProcessOutcomes :
            \E r \in {ToolExecute(tools[FindTool(tools, tool_calls[idx].tool_name)],
                                   tool_calls[idx].parameters.v, fs, safe_mode,
                                   outcome)} :
              /\ NewEvents[Len(NewEvents)].arg = ExecReturn(r)
              /\ (~r.raised /\ r.output # "") =>
                    /\ NewEvents[Len(NewEvents)].arg = r.output
                    /\ results' = Append(results,
                                         PyStr(tool_calls[idx].tool_name)
                                           \o ": " \o r.output)]_vars

\* C28: the history is system, user, then assistant and user in turn; it
\* holds one assistant message per generate call that succeeded; a turn that
\* is over has its results message exactly when the parser returned at least
\* one call for its reply; and the history handed to the latest generate call
\* ended in a user message.
C28_HistoryAlternates ==
    /\ Len(messages) >= 2
    /\ messages[1].role = "system"
    /\ messages[2].role = "user"
    /\ \A i \in 3..Len(messages) :
          messages[i].role = IF i % 2 = 1 THEN "assistant" ELSE "user"
    /\ Cardinality({i \in 1..Len(messages) : messages[i].role = "assistant"})
          = genCalls - (IF signal = SigLLMFailed THEN 1 ELSE 0)
    /\ genCalls > 0 => sent[Len(sent)].role = "user"
    /\ \A t \in 1..MaxTurns :
          (GotReply(t) /\ TurnOver(t))
          => (Len(messages) >= 2 * t + 2
                <=> (~facts[messages[2 * t + 1].content].raises
                       /\ CallsOfTurn(t) # <<>>))

\* C29: at most max_turns generate calls are made, and when execute_task is
\* out of its loop it left it in one of three ways: the gateway failed, the
\* parser returned no call for the reply of the turn, or the results of turn
\* max_turns were appended.
C29_LeavesLoopThreeWays ==
    /\ genCalls <= max_turns
    /\ LoopEnded =>
          \/ signal = SigLLMFailed /\ genCalls = turn /\ Len(messages) = 2 * turn
          \/ NoCallsIn(turn) /\ Len(messages) = 2 * turn + 1
          \/ /\ turn = max_turns
             /\ GotReply(turn)
             /\ Len(messages) = 2 * turn + 2
             /\ messages[2 * turn + 2].role = "user"

\* C30: for a reply without a fenced block in which a marker tag is followed
\* by a text that is, as a whole, a JSON object with a 'tool' key, the braces
\* inside its string values included, _extract_tool_calls returns the call
\* of that object and nothing else.
C30_ObjectAfterMarker ==
    \A kind \in {"constrain", "message"} :
        \A body \in ParseBodies :
            (extracted.returned
               /\ response = Wrap(kind, body)
               /\ CallsOfJson(body) # <<>>)
            => extracted.calls = CallsOfJson(body)

=============================================================================
